---- MODULE Spec2Model ----
(***************************************************************************)
(* A model of clawd_reachy_mini.gateway.GatewayClient: the session         *)
(* handshake (connect / disconnect), the background listener and its       *)
(* frame router (_listen, _handle_message, _handle_event,                  *)
(* _handle_tool_request), and the request/response multiplexer             *)
(* (send_message, stream_message and the _response_handlers table).        *)
(*                                                                         *)
(* Every asyncio task is a process of the model; one action is the code    *)
(* a task runs between two suspension points (await).  Timers (wait_for)   *)
(* are nondeterministic: a timeout may fire whenever its wait is pending.  *)
(***************************************************************************)
EXTENDS Integers, Sequences, FiniteSets, TLC

----------------------------------------------------------------------------
(* Bounds of the model *)

\* how many identifiers uuid4() hands out in one behaviour
MaxIds == 2
\* concurrent callers of send_message
NSenders == 2
\* items the listener may leave unconsumed in one stream queue
MaxQueue == 2
\* chunks one stream_message call yields before the model stops feeding it
MaxChunks == 2
\* frames the client writes to the transport in one behaviour
MaxSent == 2

\* how many robot handles the bridge creates in one behaviour
MaxHandles == 2

\* how many commands the handles of the bridge take in one behaviour
MaxCalls == 2

----------------------------------------------------------------------------
(* Python values *)

\* a key that a dict does not hold (dict.get falls to its default)
Absent == "<absent>"

\* a Python value: a str, a dict (of the keys the code reads), None, or the
\* str() rendering of a dict
PyVal(shape, s, type, text, content) ==
    [shape |-> shape, s |-> s, type |-> type, text |-> text, content |-> content]

Str(s) == PyVal("str", s, Absent, Absent, Absent)

Dict(type, text, content) == PyVal("dict", "", type, text, content)

None == PyVal("none", "", Absent, Absent, Absent)

\* str(v): a str is itself, a dict renders to a string that its items determine
PyStr(v) ==
    IF v.shape = "str" THEN v
    ELSE PyVal("repr", v.shape, v.type, v.text, v.content)

\* the payloads the gateway answers with
Payloads ==
    { Dict(Absent, t, c) : t \in {Absent, "", "pong"}, c \in {Absent, "body"} }

HelloOk == Dict("hello-ok", Absent, Absent)

----------------------------------------------------------------------------
(* Identifiers, tasks, frames *)

\* the frame carries no identifier (the key is missing, null or empty)
NoId == 0

Ids == 1 .. MaxIds

Senders == 1 .. NSenders

Streamers == {NSenders + 1}

Callers == Senders \cup Streamers

\* an identifier that no request of this client carries
StrayId == MaxIds + 1

\* the identifiers a frame may carry
FrameIds == {NoId} \cup Ids \cup {StrayId}

\* (reply_to, id) of an inbound frame: the identifier is in id, or it is in
\* reply_to and id is the frame's own
IdPairs ==
    { <<NoId, i>> : i \in FrameIds } \cup { <<r, StrayId>> : r \in Ids }

Frame(type, pair, event, ok, payload, error, content) ==
    [type |-> type, reply_to |-> pair[1], id |-> pair[2], event |-> event,
     ok |-> ok, payload |-> payload, error |-> error, content |-> content]

EventNames ==
    {"connect.challenge", "connect.accepted", "connect.rejected", "tick"}

EventFrames ==
    { Frame("event", <<NoId, NoId>>, e, FALSE, Dict(Absent, Absent, Absent), Absent, Absent)
        : e \in EventNames }

ResOkFrames ==
    { Frame("res", <<NoId, i>>, "", TRUE, p, Absent, Absent)
        : i \in FrameIds, p \in Payloads \cup {HelloOk} }
    \cup
    { Frame("res", <<r, StrayId>>, "", TRUE, Dict(Absent, "pong", Absent), Absent, Absent)
        : r \in Ids }

ResFailFrames ==
    { Frame("res", pr, "", FALSE, Dict(Absent, Absent, Absent), "boom", Absent)
        : pr \in IdPairs }

\* a successful "res" whose payload is no object: null, or a string
BadPayloadFrames ==
    { Frame("res", <<NoId, i>>, "", TRUE, p, Absent, Absent)
        : i \in FrameIds, p \in {None, Str("pong")} }

\* content: the "content" field, and for an "error" frame its "message" field
MessageFrames ==
    { Frame(t, <<NoId, i>>, "", FALSE, Dict(Absent, Absent, Absent), Absent, c)
        : t \in {"message.response", "message.chunk", "message.end", "error"},
          i \in FrameIds, c \in {"body"} }

ToolFrames ==
    { Frame("tool.request", <<NoId, i>>, "", FALSE, Dict(Absent, Absent, Absent), Absent, Absent)
        : i \in {NoId, StrayId} }

\* text that json.loads rejects
Malformed ==
    Frame("<not json>", <<NoId, NoId>>, "", FALSE, Dict(Absent, Absent, Absent), Absent, Absent)

\* JSON text that is no object (a list, a string, a number, null)
NotObject ==
    Frame("<not an object>", <<NoId, NoId>>, "", FALSE, Dict(Absent, Absent, Absent), Absent, Absent)

Frames ==
    EventFrames \cup ResOkFrames \cup BadPayloadFrames \cup ResFailFrames
        \cup MessageFrames \cup {NotObject}
        \cup ToolFrames \cup {Malformed}

\* an outbound frame
Out(type, method, id, token) ==
    [type |-> type, method |-> method, id |-> id, token |-> token]

----------------------------------------------------------------------------
VARIABLES
    gateway_token,      \* config.gateway_token (Absent: None)
    ws,                 \* _ws: "none", or the transport: "open" / "closed"
    connected,          \* _connected
    authenticated,      \* _authenticated
    auth_event,         \* _auth_event: "none" / "clear" / "set"
    register_event,     \* _register_event: "none" / "clear" / "set"
    response_handlers,  \* _response_handlers: id -> handler object
    listener_task,      \* _listener_task: "none" / "running" / "closed" /
                        \*   "failed" / "cancelled"
    raw_message,        \* the listener's last frame
    next_uuid,          \* what uuid4() returns next
    sent,               \* the frames written to the transport, oldest first
    pc,                 \* where each send_message / stream_message call is
    message_id,         \* its message_id
    future,             \* its response_future
    queue,              \* its chunk_queue
    yielded,            \* the chunks its stream has yielded, oldest first
    outcome,            \* how the call ended
    cpc,                \* where the caller of connect() / disconnect() is
    overlap,            \* a second call of connect() made while the first
                        \*   is in flight, and what assigning _ws and
                        \*   _listener_task has dropped
    config,             \* the Config fields the interface reads
    interface,          \* the ReachyInterface: its fields, and where its
                        \*   run() task is
    robot,              \* what the robot driver of the interface has done
    main,               \* main() / async_main(): position, run task,
                        \*   shutdown event, exit code
    bridge,             \* the ReachyBridge of the action skill
    handles,            \* what the robot handles of the bridge have seen
    result              \* what the last bridge operation returned

\* the voice interface and its entry point
hostVars == <<config, interface, robot, main>>

\* the action skill's bridge
bridgeVars == <<bridge, handles, result>>

\* the GatewayClient, its callers and its transport
gatewayVars ==
    <<gateway_token, ws, connected, authenticated, auth_event, register_event,
      response_handlers, listener_task, raw_message, next_uuid, sent,
      pc, message_id, future, queue, yielded, outcome, cpc, overlap>>

vars ==
    <<gateway_token, ws, connected, authenticated, auth_event, register_event,
      response_handlers, listener_task, raw_message, next_uuid, sent,
      pc, message_id, future, queue, yielded, outcome, cpc, overlap,
      config, interface, robot, main, bridge, handles, result>>

\* what the calls of send_message / stream_message own
callVars == <<pc, message_id, yielded, outcome>>

NoFuture == [st |-> "none", val |-> None]

Pending == [st |-> "pending", val |-> None]

NoOutcome == [kind |-> "none", val |-> None]

\* no second connect(), nothing dropped
NoOverlap == [pc |-> "idle", transport |-> FALSE, listener |-> FALSE]

\* a handler object: the future or queue of caller `owner`'s running call, or
\* (owner 0) one whose call has ended without removing it
Handler(kind, owner) == [kind |-> kind, owner |-> owner, done |-> FALSE]

\* Config as the dataclass builds it (main() sets standalone_mode, wake_word
\* and play_emotions from the command line afterwards)
Config ==
    [standalone_mode |-> FALSE, wake_word |-> Absent, play_emotions |-> TRUE,
     idle_animations |-> FALSE]

\* ReachyInterface.__init__; pc is where the task of run() stands, text and
\* response are the locals of the conversation turn, animation_task the
\* claw animation task of the turn
ReachyInterface ==
    [state |-> "IDLE", running |-> FALSE, reachy |-> "none",
     gateway |-> "none", conversation_active |-> FALSE,
     pc |-> "new", text |-> << >>, response |-> << >>,
     animation_task |-> "none", speak_task |-> "none", orphaned |-> FALSE,
     idle_saw |-> "none"]

\* the robot before the interface has driven it: the last antenna command, the
\* last emotion played, the reply spoken in the current turn, the last head
\* command
Robot ==
    [awake |-> FALSE, antennas |-> "none", emotion |-> Absent,
     spoken |-> << >>, head |-> "none"]

\* the entry point before main() has run
Main == [pc |-> "new", run_task |-> "none", shutdown |-> FALSE, exit_code |-> 0]

\* ReachyBridge.__init__
ReachyBridge == [mini |-> "none", connected |-> FALSE]

\* no robot handle has been created: how many were created, how often
\* __enter__ and __exit__ were called, how many commands the handles took,
\* the last head pose asked of move_head and the one commanded
NoHandles ==
    [created |-> 0, entered |-> 0, exited |-> 0, calls |-> 0,
     asked |-> << >>, head |-> << >>]

\* no bridge operation has returned yet
NoResult == [op |-> "none", status |-> "none", message |-> Absent, position |-> << >>]

Init ==
    /\ gateway_token \in {Absent, "secret-token"}
    /\ ws = "none"
    /\ connected = FALSE
    /\ authenticated = FALSE
    /\ auth_event = "none"
    /\ register_event = "none"
    /\ response_handlers = << >>
    /\ listener_task = "none"
    /\ raw_message = Malformed
    /\ next_uuid = 1
    /\ sent = << >>
    /\ overlap = NoOverlap
    /\ pc = [c \in Callers |-> "idle"]
    /\ message_id = [c \in Callers |-> NoId]
    /\ future = [c \in Callers |-> NoFuture]
    /\ queue = [c \in Callers |-> << >>]
    /\ yielded = [c \in Callers |-> << >>]
    /\ outcome = [c \in Callers |-> NoOutcome]
    /\ cpc = "idle"
    /\ config = Config
    /\ interface = ReachyInterface
    /\ robot = Robot
    /\ main = Main
    /\ bridge = ReachyBridge
    /\ handles = NoHandles
    /\ result = NoResult

\* a client that takes itself for connected while it holds a transport
has_transport == ws # "none"

is_connected == connected /\ ws # "none"

\* a generator that is seeded the same for every call: it returns the same
\* identifier every time
uuid4Stuck == CHOOSE i \in Ids : \A j \in Ids : i <= j

\* str(uuid.uuid4()): an identifier no earlier call returned
uuid4 == next_uuid

----------------------------------------------------------------------------
(* connect() and disconnect(), called one after the other by the owner of   *)
(* the client                                                               *)

\* connect() without its is_connected check
ConnectCallAlways ==
    /\ cpc = "idle"
    /\ cpc' = "opening"
    /\ UNCHANGED <<hostVars, bridgeVars, overlap, gateway_token, ws, connected, authenticated, auth_event,
                   register_event, response_handlers, listener_task,
                   raw_message, next_uuid, sent, future, queue, callVars>>

\* connect(): the is_connected check, then await websockets.connect(...)
ConnectCall ==
    /\ cpc = "idle"
    /\ cpc' = IF is_connected THEN "returned" ELSE "opening"
    /\ UNCHANGED <<hostVars, bridgeVars, overlap, gateway_token, ws, connected, authenticated, auth_event,
                   register_event, response_handlers, listener_task,
                   raw_message, next_uuid, sent, future, queue, callVars>>

\* `self._ws = ...` and `self._listener_task = ...` in connect(): a transport
\* still open and a listener task still running lose their only reference
\* there, unclosed and uncancelled
Dropped(o) ==
    [o EXCEPT !.transport = @ \/ ws = "open",
              !.listener = @ \/ listener_task = "running"]

\* websockets.connect returned: the flags, the two events, the listener task
ConnectOpen ==
    /\ cpc = "opening"
    /\ ws' = "open"
    /\ connected' = TRUE
    /\ auth_event' = "clear"
    /\ register_event' = "clear"
    /\ listener_task' = "running"
    /\ cpc' = "wait_auth"
    /\ overlap' = Dropped(overlap)
    /\ UNCHANGED <<hostVars, bridgeVars, gateway_token, authenticated, response_handlers,
                   raw_message, next_uuid, sent, future, queue, callVars>>

\* websockets.connect raised: logged and raised again
ConnectFail ==
    /\ cpc = "opening"
    /\ cpc' = "raised"
    /\ UNCHANGED <<hostVars, bridgeVars, overlap, gateway_token, ws, connected, authenticated, auth_event,
                   register_event, response_handlers, listener_task,
                   raw_message, next_uuid, sent, future, queue, callVars>>

\* `await self._auth_event.wait()` with no timeout around it
AuthWaitNoTimeout ==
    /\ cpc = "wait_auth"
    /\ auth_event = "set"
    /\ authenticated' = authenticated
    /\ cpc' = "wait_ready"
    /\ UNCHANGED <<hostVars, bridgeVars, overlap, gateway_token, ws, connected, auth_event, register_event,
                   response_handlers, listener_task, raw_message, next_uuid,
                   sent, future, queue, callVars>>

\* a timeout branch that only logs and leaves _authenticated as it was
AuthWaitKeeps ==
    /\ cpc = "wait_auth"
    /\ authenticated' = authenticated
    /\ cpc' = "wait_ready"
    /\ UNCHANGED <<hostVars, bridgeVars, overlap, gateway_token, ws, connected, auth_event, register_event,
                   response_handlers, listener_task, raw_message, next_uuid,
                   sent, future, queue, callVars>>

\* wait_for(_auth_event.wait(), 10.0): the event is set, or the timeout
\* passes and the session is taken as authenticated
AuthWait ==
    /\ cpc = "wait_auth"
    /\ authenticated' = IF auth_event = "set" THEN authenticated ELSE TRUE
    /\ cpc' = "wait_ready"
    /\ UNCHANGED <<hostVars, bridgeVars, overlap, gateway_token, ws, connected, auth_event, register_event,
                   response_handlers, listener_task, raw_message, next_uuid,
                   sent, future, queue, callVars>>

\* a ready wait whose timeout closes the transport and raises
ReadyWaitCloses ==
    /\ cpc = "wait_ready"
    /\ IF register_event = "set"
       THEN cpc' = "returned" /\ UNCHANGED <<ws, connected>>
       ELSE cpc' = "raised" /\ ws' = "closed" /\ connected' = FALSE
    /\ UNCHANGED <<hostVars, bridgeVars, overlap, gateway_token, authenticated, auth_event, register_event,
                   response_handlers, listener_task, raw_message, next_uuid,
                   sent, future, queue, callVars>>

\* wait_for(_register_event.wait(), 10.0): set or timed out, connect() returns
ReadyWait ==
    /\ cpc = "wait_ready"
    /\ cpc' = "returned"
    /\ UNCHANGED <<hostVars, bridgeVars, overlap, gateway_token, ws, connected, authenticated, auth_event,
                   register_event, response_handlers, listener_task,
                   raw_message, next_uuid, sent, future, queue, callVars>>

\* the caller has the result of connect() or disconnect() and goes on
CallerContinues ==
    /\ cpc \in {"returned", "raised", "disconnected"}
    /\ cpc' = "idle"
    /\ UNCHANGED <<hostVars, bridgeVars, overlap, gateway_token, ws, connected, authenticated, auth_event,
                   register_event, response_handlers, listener_task,
                   raw_message, next_uuid, sent, future, queue, callVars>>

\* what a second connect() leaves alone
firstVars ==
    <<hostVars, bridgeVars, gateway_token, response_handlers, raw_message,
      next_uuid, sent, future, queue, callVars, cpc>>

\* a second task calls connect() while the first call is awaiting
\* websockets.connect or one of its two waits: the is_connected check
SecondConnectCall ==
    /\ overlap.pc = "idle"
    /\ cpc \in {"opening", "wait_auth", "wait_ready"}
    /\ overlap' = [overlap EXCEPT !.pc = IF is_connected THEN "returned"
                                         ELSE "opening"]
    /\ UNCHANGED <<firstVars, ws, connected, authenticated, auth_event,
                   register_event, listener_task>>

\* its websockets.connect returned: the same assignments as the first call's
SecondConnectOpen ==
    /\ overlap.pc = "opening"
    /\ ws' = "open"
    /\ connected' = TRUE
    /\ auth_event' = "clear"
    /\ register_event' = "clear"
    /\ listener_task' = "running"
    /\ overlap' = [Dropped(overlap) EXCEPT !.pc = "wait_auth"]
    /\ UNCHANGED <<firstVars, authenticated>>

\* its websockets.connect raised
SecondConnectFail ==
    /\ overlap.pc = "opening"
    /\ overlap' = [overlap EXCEPT !.pc = "raised"]
    /\ UNCHANGED <<firstVars, ws, connected, authenticated, auth_event,
                   register_event, listener_task>>

\* its wait on the auth event, with the permissive timeout
SecondAuthWait ==
    /\ overlap.pc = "wait_auth"
    /\ authenticated' = IF auth_event = "set" THEN authenticated ELSE TRUE
    /\ overlap' = [overlap EXCEPT !.pc = "wait_ready"]
    /\ UNCHANGED <<firstVars, ws, connected, auth_event, register_event,
                   listener_task>>

\* its wait on the ready event, and the return of the call to its caller
SecondReadyWait ==
    /\ overlap.pc = "wait_ready"
    /\ overlap' = [overlap EXCEPT !.pc = "returned"]
    /\ UNCHANGED <<firstVars, ws, connected, authenticated, auth_event,
                   register_event, listener_task>>

\* the second caller has the result of its connect()
SecondContinues ==
    /\ overlap.pc \in {"returned", "raised"}
    /\ overlap' = [overlap EXCEPT !.pc = "idle"]
    /\ UNCHANGED <<firstVars, ws, connected, authenticated, auth_event,
                   register_event, listener_task>>

\* disconnect(): cancel the listener task and await it
DisconnectCall ==
    /\ cpc = "idle"
    /\ listener_task' = IF listener_task = "running" THEN "cancelled"
                        ELSE listener_task
    /\ cpc' = "closing"
    /\ UNCHANGED <<hostVars, bridgeVars, overlap, gateway_token, ws, connected, authenticated, auth_event,
                   register_event, response_handlers, raw_message, next_uuid,
                   sent, future, queue, callVars>>

\* a disconnect() that closes the transport and keeps the reference to it
DisconnectCloseKeepsWs ==
    /\ cpc = "closing"
    /\ IF ws # "none"
       THEN ws' = "closed" /\ connected' = FALSE
       ELSE UNCHANGED <<ws, connected>>
    /\ cpc' = "disconnected"
    /\ UNCHANGED <<hostVars, bridgeVars, overlap, gateway_token, authenticated, auth_event, register_event,
                   response_handlers, listener_task, raw_message, next_uuid,
                   sent, future, queue, callVars>>

\* disconnect(): await _ws.close(), clear _ws and _connected
DisconnectClose ==
    /\ cpc = "closing"
    /\ IF ws # "none"
       THEN ws' = "none" /\ connected' = FALSE
       ELSE UNCHANGED <<ws, connected>>
    /\ cpc' = "disconnected"
    /\ UNCHANGED <<hostVars, bridgeVars, overlap, gateway_token, authenticated, auth_event, register_event,
                   response_handlers, listener_task, raw_message, next_uuid,
                   sent, future, queue, callVars>>

----------------------------------------------------------------------------
(* The transport *)

\* the connection is lost or closed by the gateway
TransportCloses ==
    /\ ws = "open"
    /\ ws' = "closed"
    /\ UNCHANGED <<hostVars, bridgeVars, overlap, gateway_token, connected, authenticated, auth_event,
                   register_event, response_handlers, listener_task,
                   raw_message, next_uuid, sent, future, queue, callVars, cpc>>

\* _send_raw(data) can write: _ws is set and the transport takes the frame
CanSend == ws = "open"

----------------------------------------------------------------------------
(* The listener: _listen, _handle_message, _handle_event,                   *)
(* _handle_tool_request.  The handlers are functions of the client's state  *)
(* s (a record of the fields they may change) and the decoded frame f;      *)
(* s.raised says that an exception left the handler.                        *)

ListenerState ==
    [raised |-> FALSE, authenticated |-> authenticated,
     auth_event |-> auth_event, register_event |-> register_event,
     response_handlers |-> response_handlers, next_uuid |-> next_uuid,
     sent |-> sent, future |-> future, queue |-> queue]

Raise(s) == [s EXCEPT !.raised = TRUE]

\* `if self._xxx_event: self._xxx_event.set()`
SetEvent(e) == IF e = "none" THEN "none" ELSE "set"

\* `"token": self.config.gateway_token`: None goes out as it is
AuthTokenRaw == gateway_token

\* `self.config.gateway_token or ""`
AuthToken == IF gateway_token = Absent THEN "" ELSE gateway_token

\* `data.get("reply_to") or data.get("id")`
MsgId(f) == IF f.reply_to # NoId THEN f.reply_to ELSE f.id

\* `msg_id and msg_id in self._response_handlers`
Known(s, id) == id # NoId /\ id \in DOMAIN s.response_handlers

\* the handler object is done: set_result / set_exception on it raise
\* InvalidStateError
FutureDone(s, h) ==
    IF h.owner = 0 THEN h.done ELSE s.future[h.owner].st # "pending"

\* a client with one slot for "the" request: whatever frame resolves, it
\* resolves the handler registered last
SetFutureLatest(s, id, st, val) ==
    LET k == CHOOSE x \in DOMAIN s.response_handlers :
                 \A y \in DOMAIN s.response_handlers : y <= x
        h == s.response_handlers[k] IN
    IF h.owner = 0 \/ s.future[h.owner].st # "pending" THEN Raise(s)
    ELSE [s EXCEPT !.future[h.owner] = [st |-> st, val |-> val]]

\* handler.set_result(val) (st "result") / handler.set_exception(val)
\* (st "exception") on the Future registered under id
SetFuture(s, id, st, val) ==
    LET h == s.response_handlers[id] IN
    IF FutureDone(s, h) THEN Raise(s)
    ELSE IF h.owner = 0
         THEN [s EXCEPT !.response_handlers[id].done = TRUE]
         ELSE [s EXCEPT !.future[h.owner] = [st |-> st, val |-> val]]

\* a handler queue that hands out the newest item first (a LifoQueue)
QueuePutFront(s, id, item) ==
    LET h == s.response_handlers[id] IN
    IF h.owner = 0 THEN s
    ELSE [s EXCEPT !.queue[h.owner] = <<item>> \o @]

\* await handler.put(item) on the Queue registered under id
QueuePut(s, id, item) ==
    LET h == s.response_handlers[id] IN
    IF h.owner = 0 THEN s
    ELSE [s EXCEPT !.queue[h.owner] = Append(@, item)]

\* _send_raw(frame) from a handler
SendRaw(s, frame) ==
    IF CanSend THEN [s EXCEPT !.sent = Append(@, frame)] ELSE Raise(s)

\* the connect request that answers a challenge
ConnectRequest == Out("req", "connect", uuid4, AuthToken)

\* a handler that takes every event it does not know for the acceptance
handle_eventAccepting(s, f) ==
    CASE f.event = "connect.challenge" ->
            LET t == SendRaw([s EXCEPT !.next_uuid = @ + 1], ConnectRequest) IN
            IF t.raised THEN t
            ELSE [t EXCEPT !.authenticated = TRUE,
                           !.auth_event = SetEvent(@)]
      [] f.event = "connect.rejected" ->
            [s EXCEPT !.authenticated = FALSE,
                      !.auth_event = SetEvent(@)]
      [] OTHER ->
            [s EXCEPT !.authenticated = TRUE,
                      !.auth_event = SetEvent(@),
                      !.register_event = SetEvent(@)]

handle_event(s, f) ==
    CASE f.event = "connect.challenge" ->
            LET t == SendRaw([s EXCEPT !.next_uuid = @ + 1], ConnectRequest) IN
            IF t.raised THEN t
            ELSE [t EXCEPT !.authenticated = TRUE,
                           !.auth_event = SetEvent(@)]
      [] f.event = "connect.accepted" ->
            [s EXCEPT !.authenticated = TRUE,
                      !.auth_event = SetEvent(@),
                      !.register_event = SetEvent(@)]
      [] f.event = "connect.rejected" ->
            [s EXCEPT !.authenticated = FALSE,
                      !.auth_event = SetEvent(@)]
      [] OTHER -> s

\* a placeholder that answers nothing while no handler is registered
handle_tool_requestSilent(s, f) == s

handle_tool_request(s, f) ==
    SendRaw(s, Out("tool.response", "Tool handler not registered", f.id, ""))

\* a "res" branch that indexes the table without looking first: a frame for
\* an identifier that is not there raises KeyError
handle_resUnguarded(s, f) ==
    LET msg_id == MsgId(f) IN
    IF f.ok /\ f.payload.shape # "dict" THEN Raise(s)
    ELSE IF f.ok /\ f.payload.type = "hello-ok"
    THEN [s EXCEPT !.register_event = SetEvent(@)]
    ELSE IF ~Known(s, msg_id) THEN Raise(s)
    ELSE IF s.response_handlers[msg_id].kind = "future"
         THEN IF f.ok THEN SetFuture(s, msg_id, "result", f.payload)
              ELSE SetFuture(s, msg_id, "exception", Str(f.error))
         ELSE IF f.ok THEN QueuePut(s, msg_id, f.payload) ELSE s

\* the branch of _handle_message for type "res"
handle_res(s, f) ==
    LET msg_id == MsgId(f) IN
    IF f.ok
    THEN IF f.payload.shape # "dict"
         THEN Raise(s)      \* payload.get: AttributeError
         ELSE
         IF f.payload.type = "hello-ok"
         THEN [s EXCEPT !.register_event = SetEvent(@)]
         ELSE IF Known(s, msg_id)
              THEN IF s.response_handlers[msg_id].kind = "future"
                   THEN SetFuture(s, msg_id, "result", f.payload)
                   ELSE QueuePut(s, msg_id, f.payload)
              ELSE s
    ELSE IF Known(s, msg_id) /\ s.response_handlers[msg_id].kind = "future"
         THEN SetFuture(s, msg_id, "exception", Str(f.error))
         ELSE s

handle_message(s, f) ==
    LET msg_id == MsgId(f) IN
    CASE f.type = "event" -> handle_event(s, f)
      [] f.type = "res" -> handle_res(s, f)
      [] f.type = "message.response" ->
            IF Known(s, msg_id)
            THEN IF s.response_handlers[msg_id].kind = "future"
                 THEN SetFuture(s, msg_id, "result", Str(f.content))
                 ELSE QueuePut(QueuePut(s, msg_id, Str(f.content)), msg_id, None)
            ELSE s
      [] f.type = "message.chunk" ->
            IF Known(s, msg_id) /\ s.response_handlers[msg_id].kind = "queue"
            THEN QueuePut(s, msg_id, Str(f.content))
            ELSE s
      [] f.type = "message.end" ->
            IF Known(s, msg_id) /\ s.response_handlers[msg_id].kind = "queue"
            THEN QueuePut(s, msg_id, None)
            ELSE s
      [] f.type = "tool.request" -> handle_tool_request(s, f)
      [] f.type = "error" ->
            IF Known(s, msg_id) /\ s.response_handlers[msg_id].kind = "future"
            THEN SetFuture(s, msg_id, "exception", Str(f.content))
            ELSE s
      [] OTHER -> s

\* one turn of the loop of _listen on frame f: json.loads, _handle_message
listen(s, f) ==
    IF f = Malformed THEN s         \* json.JSONDecodeError: logged
    ELSE IF f = NotObject THEN Raise(s)     \* data.get: AttributeError
    ELSE handle_message(s, f)

\* the gateway can have sent frame f: the identifiers in it are none, stray,
\* or ones that uuid4() has already returned
Sendable(f) ==
    \A i \in {f.reply_to, f.id} : i \in {NoId, StrayId} \/ i < next_uuid

\* the model's bounds let the listener take frame f
Fits(f) ==
    LET t == listen(ListenerState, f) IN
    /\ t.next_uuid <= MaxIds + 1
    /\ Len(t.sent) <= MaxSent
    /\ \A c \in Callers : Len(t.queue[c]) <= MaxQueue + 1
    /\ \A c \in Callers : Len(t.queue[c]) > Len(queue[c]) =>
            Len(queue[c]) < MaxQueue /\ Len(yielded[c]) < MaxChunks

\* the listener reads frame f (one the transport delivered before it closed)
\* and handles it; an exception other than a JSON error ends the listener
Listen(f) ==
    /\ listener_task = "running"
    /\ ws # "none"
    /\ Sendable(f)
    /\ Fits(f)
    /\ raw_message' = f
    /\ LET t == listen(ListenerState, f) IN
        /\ authenticated' = t.authenticated
        /\ auth_event' = t.auth_event
        /\ register_event' = t.register_event
        /\ response_handlers' = t.response_handlers
        /\ next_uuid' = t.next_uuid
        /\ sent' = t.sent
        /\ future' = t.future
        /\ queue' = t.queue
        /\ listener_task' = IF t.raised THEN "failed" ELSE "running"
        /\ connected' = IF t.raised THEN FALSE ELSE connected
    /\ UNCHANGED <<hostVars, bridgeVars, overlap, gateway_token, ws, callVars, cpc>>

\* a listener that fails every pending future when the transport closes
ListenClosedRejects ==
    /\ listener_task = "running"
    /\ ws = "closed"
    /\ listener_task' = "closed"
    /\ connected' = FALSE
    /\ future' = [c \in Callers |->
                    IF future[c].st = "pending"
                    THEN [st |-> "exception", val |-> Str("closed")]
                    ELSE future[c]]
    /\ UNCHANGED <<hostVars, bridgeVars, overlap, gateway_token, ws, authenticated, auth_event,
                   register_event, response_handlers, raw_message, next_uuid,
                   sent, queue, callVars, cpc>>

\* the listener finds the transport closed (websockets.ConnectionClosed)
ListenClosed ==
    /\ listener_task = "running"
    /\ ws = "closed"
    /\ listener_task' = "closed"
    /\ connected' = FALSE
    /\ UNCHANGED <<hostVars, bridgeVars, overlap, gateway_token, ws, authenticated, auth_event,
                   register_event, response_handlers, raw_message, next_uuid,
                   sent, future, queue, callVars, cpc>>

----------------------------------------------------------------------------
(* send_message and stream_message *)

\* `self._response_handlers[message_id] = handler`
Register(handlers, id, h) == (id :> h) @@ handlers

\* a finally block that forgets the entry
PopNothing(handlers, id) == handlers

\* a finally block that clears the table instead of removing its own entry
PopAll(handlers, id) == << >>

\* `self._response_handlers.pop(message_id, None)`
Pop(handlers, id) == [k \in DOMAIN handlers \ {id} |-> handlers[k]]

Ended(kind, val) == [kind |-> kind, val |-> val]

\* `response.get("text") or response.get("content") or str(response)`: an
\* empty text falls through
ExtractTruthy(response) ==
    IF response.shape = "dict"
    THEN IF response.text \notin {Absent, ""} THEN Str(response.text)
         ELSE IF response.content \notin {Absent, ""} THEN Str(response.content)
         ELSE PyStr(response)
    ELSE PyStr(response)

\* the text send_message returns for a resolved response
Extract(response) ==
    IF response.shape = "dict"
    THEN IF response.text # Absent THEN Str(response.text)
         ELSE IF response.content # Absent THEN Str(response.content)
         ELSE PyStr(response)
    ELSE PyStr(response)

\* send_message / stream_message on a client that is not connected
CallNotConnected(c) ==
    /\ pc[c] = "idle"
    /\ ~is_connected
    /\ pc' = [pc EXCEPT ![c] = "done"]
    /\ outcome' = [outcome EXCEPT ![c] = Ended("not_connected", None)]
    /\ UNCHANGED <<hostVars, bridgeVars, overlap, gateway_token, ws, connected, authenticated, auth_event,
                   register_event, response_handlers, listener_task,
                   raw_message, next_uuid, sent, future, queue, message_id,
                   yielded, cpc>>

\* the "params" of the request frame of send_message(text)
RequestParams(text) ==
    [prompt |-> text, session |-> "agent:main:reachy-mini", stream |-> FALSE]

\* the request frame of the call of c
Request(c, id) ==
    IF c \in Senders THEN Out("req", "agent.run", id, "")
    ELSE Out("message.send", "", id, "")

\* send_message / stream_message up to their wait: the identifier, the
\* handler registered under it, the frame written by _send_raw
Call(c) ==
    /\ pc[c] = "idle"
    /\ is_connected
    /\ next_uuid <= MaxIds
    /\ Len(sent) < MaxSent
    /\ CanSend
    /\ message_id' = [message_id EXCEPT ![c] = uuid4]
    /\ next_uuid' = next_uuid + 1
    /\ future' = [future EXCEPT ![c] = IF c \in Senders THEN Pending ELSE NoFuture]
    /\ queue' = [queue EXCEPT ![c] = << >>]
    /\ yielded' = [yielded EXCEPT ![c] = << >>]
    /\ response_handlers' =
          Register(response_handlers, uuid4,
                   Handler(IF c \in Senders THEN "future" ELSE "queue", c))
    /\ sent' = Append(sent, Request(c, uuid4))
    /\ pc' = [pc EXCEPT ![c] = "waiting"]
    /\ UNCHANGED <<hostVars, bridgeVars, overlap, gateway_token, ws, connected, authenticated, auth_event,
                   register_event, listener_task, raw_message, outcome, cpc>>

\* the same, on a transport that has closed: _send_raw raises out of the call
\* after the handler was registered
CallSendFails(c) ==
    /\ pc[c] = "idle"
    /\ is_connected
    /\ next_uuid <= MaxIds
    /\ ~CanSend
    /\ message_id' = [message_id EXCEPT ![c] = uuid4]
    /\ next_uuid' = next_uuid + 1
    /\ response_handlers' =
          Register(response_handlers, uuid4,
                   Handler(IF c \in Senders THEN "future" ELSE "queue", 0))
    /\ pc' = [pc EXCEPT ![c] = "done"]
    /\ outcome' = [outcome EXCEPT ![c] = Ended("send_failed", None)]
    /\ UNCHANGED <<hostVars, bridgeVars, overlap, gateway_token, ws, connected, authenticated, auth_event,
                   register_event, listener_task, raw_message, sent, future,
                   queue, yielded, cpc>>

\* the timer of wait_for(response_future, 120.0) fires: the future is cancelled
Timeout(c) ==
    /\ c \in Senders
    /\ pc[c] = "waiting"
    /\ future[c].st = "pending"
    /\ future' = [future EXCEPT ![c] = [st |-> "cancelled", val |-> None]]
    /\ UNCHANGED <<hostVars, bridgeVars, overlap, gateway_token, ws, connected, authenticated, auth_event,
                   register_event, response_handlers, listener_task,
                   raw_message, next_uuid, sent, queue, callVars, cpc>>

\* how send_message ends on its future
SendOutcome(fut) ==
    CASE fut.st = "result" -> Ended("returned", Extract(fut.val))
      [] fut.st = "exception" -> Ended("error", fut.val)
      [] fut.st = "cancelled" -> Ended("timeout", None)

\* send_message resumes on its done future: the result, the error or the
\* timeout, and the finally block
SendMessageEnds(c) ==
    /\ c \in Senders
    /\ pc[c] = "waiting"
    /\ future[c].st \in {"result", "exception", "cancelled"}
    /\ outcome' = [outcome EXCEPT ![c] = SendOutcome(future[c])]
    /\ response_handlers' = Pop(response_handlers, message_id[c])
    /\ future' = [future EXCEPT ![c] = NoFuture]
    /\ pc' = [pc EXCEPT ![c] = "done"]
    /\ UNCHANGED <<hostVars, bridgeVars, overlap, gateway_token, ws, connected, authenticated, auth_event,
                   register_event, listener_task, raw_message, next_uuid,
                   sent, queue, message_id, yielded, cpc>>

\* stream_message takes the next item of its queue: a chunk is yielded, the
\* end marker ends the stream through the finally block
StreamNext(c) ==
    /\ c \in Streamers
    /\ pc[c] = "waiting"
    /\ queue[c] # << >>
    /\ IF Head(queue[c]) = None
       THEN /\ response_handlers' = Pop(response_handlers, message_id[c])
            /\ queue' = [queue EXCEPT ![c] = << >>]
            /\ pc' = [pc EXCEPT ![c] = "done"]
            /\ outcome' = [outcome EXCEPT ![c] = Ended("returned", None)]
            /\ UNCHANGED yielded
       ELSE /\ yielded' = [yielded EXCEPT ![c] = Append(@, Head(queue[c]))]
            /\ queue' = [queue EXCEPT ![c] = Tail(@)]
            /\ UNCHANGED <<response_handlers, pc, outcome>>
    /\ UNCHANGED <<hostVars, bridgeVars, overlap, gateway_token, ws, connected, authenticated, auth_event,
                   register_event, listener_task, raw_message, next_uuid,
                   sent, future, message_id, cpc>>

\* wait_for(chunk_queue.get(), 120.0) times out on the empty queue
StreamTimeout(c) ==
    /\ c \in Streamers
    /\ pc[c] = "waiting"
    /\ queue[c] = << >>
    /\ response_handlers' = Pop(response_handlers, message_id[c])
    /\ pc' = [pc EXCEPT ![c] = "done"]
    /\ outcome' = [outcome EXCEPT ![c] = Ended("timeout", None)]
    /\ UNCHANGED <<hostVars, bridgeVars, overlap, gateway_token, ws, connected, authenticated, auth_event,
                   register_event, listener_task, raw_message, next_uuid,
                   sent, future, queue, message_id, yielded, cpc>>

\* the caller has the outcome of its call and may call again
Return(c) ==
    /\ pc[c] = "done"
    /\ pc' = [pc EXCEPT ![c] = "idle"]
    /\ message_id' = [message_id EXCEPT ![c] = NoId]
    /\ outcome' = [outcome EXCEPT ![c] = NoOutcome]
    /\ yielded' = [yielded EXCEPT ![c] = << >>]
    /\ UNCHANGED <<hostVars, bridgeVars, overlap, gateway_token, ws, connected, authenticated, auth_event,
                   register_event, response_handlers, listener_task,
                   raw_message, next_uuid, sent, future, queue, cpc>>

----------------------------------------------------------------------------
(* The action skill's ReachyBridge (action-skill/.../bridge.py): every      *)
(* method is one action; what the robot package does (a constructor, an     *)
(* entry, an exit or a command that raises) is its input.                   *)

\* ReachyConfig: the safety limits, in degrees
max_roll == 30

max_pitch == 30

max_yaw == 45

\* the angles and heights asked of move_head: beyond, at and within the limits
Angles == {-100, -30, 0, 31, 45, 100}

Heights == {0, 10}

\* Python's min(a, b) and max(a, b)
min(a, b) == IF b < a THEN b ELSE a

max(a, b) == IF b > a THEN b ELSE a

\* a clamp that has no lower end
ClampUpper(limit, angle) == min(limit, angle)

\* `max(-limit, min(limit, angle))`
Clamp(limit, angle) == max(-limit, min(limit, angle))

\* a bridge that takes itself as connected whenever it holds a handle
bridge_has_handle == bridge.mini # "none"

\* ReachyBridge.is_connected
bridge_is_connected == bridge.connected /\ bridge.mini # "none"

\* the dict a bridge method returns
Result(op, status, message) ==
    [op |-> op, status |-> status, message |-> message, position |-> << >>]

NotConnected(op) == Result(op, "error", "Not connected to robot")

\* a connect() without its is_connected check
BridgeConnectAlways(how) ==
    /\ handles.created < MaxHandles
    /\ how = "ok"
    /\ bridge' = [mini |-> "handle", connected |-> TRUE]
    /\ handles' = [handles EXCEPT !.created = @ + 1, !.entered = @ + 1]
    /\ result' = Result("connect", "connected", Absent)
    /\ UNCHANGED <<hostVars, gatewayVars>>

\* connect(): how the handle is built and entered; "no_package" is the
\* ImportError, "ctor_raises" and "enter_raises" the two calls that can raise
BridgeConnect(how) ==
    /\ bridge_is_connected \/ handles.created < MaxHandles
    /\ IF bridge_is_connected
       THEN /\ result' = Result("connect", "already_connected", Absent)
            /\ UNCHANGED <<bridge, handles>>
       ELSE CASE how = "ok" ->
                    /\ bridge' = [mini |-> "handle", connected |-> TRUE]
                    /\ handles' = [handles EXCEPT !.created = @ + 1,
                                                  !.entered = @ + 1]
                    /\ result' = Result("connect", "connected", Absent)
              [] how = "no_package" ->
                    /\ result' = Result("connect", "error",
                                        "reachy-mini package not installed")
                    /\ UNCHANGED <<bridge, handles>>
              [] how = "ctor_raises" ->
                    /\ result' = Result("connect", "error", "raised")
                    /\ UNCHANGED <<bridge, handles>>
              [] how = "enter_raises" ->
                    /\ bridge' = [bridge EXCEPT !.mini = "handle"]
                    /\ handles' = [handles EXCEPT !.created = @ + 1,
                                                  !.entered = @ + 1]
                    /\ result' = Result("connect", "error", "raised")
    /\ UNCHANGED <<hostVars, gatewayVars>>

\* a disconnect() that drops the handle whether its exit returned or raised
BridgeDisconnectForgets(ok) ==
    /\ (bridge_is_connected /\ ~ok) => handles.exited < MaxHandles
    /\ IF ~bridge_is_connected
       THEN /\ result' = Result("disconnect", "not_connected", Absent)
            /\ UNCHANGED <<bridge, handles>>
       ELSE /\ handles' = [handles EXCEPT !.exited = @ + 1]
            /\ bridge' = [mini |-> "none", connected |-> FALSE]
            /\ result' = Result("disconnect",
                                IF ok THEN "disconnected" ELSE "error",
                                IF ok THEN Absent ELSE "raised")
    /\ UNCHANGED <<hostVars, gatewayVars>>

\* disconnect(): the handle's exit returns (ok) or raises
BridgeDisconnect(ok) ==
    /\ (bridge_is_connected /\ ~ok) => handles.exited < MaxHandles
    /\ IF ~bridge_is_connected
       THEN /\ result' = Result("disconnect", "not_connected", Absent)
            /\ UNCHANGED <<bridge, handles>>
       ELSE IF ok
       THEN /\ handles' = [handles EXCEPT !.exited = @ + 1]
            /\ bridge' = [mini |-> "none", connected |-> FALSE]
            /\ result' = Result("disconnect", "disconnected", Absent)
       ELSE /\ handles' = [handles EXCEPT !.exited = @ + 1]
            /\ result' = Result("disconnect", "error", "raised")
            /\ UNCHANGED bridge
    /\ UNCHANGED <<hostVars, gatewayVars>>

\* move_head(z, roll, pitch, yaw): the clamped pose goes to goto_target,
\* which returns (ok) or raises, and into the result
move_head(z, roll, pitch, yaw, ok) ==
    /\ IF ~bridge_is_connected
       THEN /\ result' = NotConnected("move_head")
            /\ UNCHANGED handles
       ELSE LET pose == <<z, Clamp(max_roll, roll), Clamp(max_pitch, pitch),
                          Clamp(max_yaw, yaw)>> IN
            /\ handles.calls < MaxCalls
            /\ handles' = [handles EXCEPT !.calls = @ + 1,
                                          !.asked = <<z, roll, pitch, yaw>>,
                                          !.head = pose]
            /\ result' = IF ok
                         THEN [Result("move_head", "success", Absent)
                                 EXCEPT !.position = pose]
                         ELSE Result("move_head", "error", "raised")
    /\ UNCHANGED <<bridge, hostVars, gatewayVars>>

\* move_antennas, play_emotion, dance and say: one command on the handle,
\* which returns (ok) or raises
Command(op, ok) ==
    /\ IF ~bridge_is_connected
       THEN /\ result' = NotConnected(op)
            /\ UNCHANGED handles
       ELSE /\ handles.calls < MaxCalls
            /\ handles' = [handles EXCEPT !.calls = @ + 1]
            /\ result' = Result(op, IF ok THEN "success" ELSE "error",
                                IF ok THEN Absent ELSE "raised")
    /\ UNCHANGED <<bridge, hostVars, gatewayVars>>

move_antennas(ok) == Command("move_antennas", ok)

play_emotion(ok) == Command("play_emotion", ok)

dance(ok) == Command("dance", ok)

say(ok) == Command("say", ok)

\* capture_image(): the camera frame is read ("raises": get_frame or the
\* save raised) and saved with cv2, with the frame's own save, or
\* ("no_cv2") not at all
capture_image(how) ==
    /\ IF ~bridge_is_connected
       THEN /\ result' = NotConnected("capture_image")
            /\ UNCHANGED handles
       ELSE /\ handles.calls < MaxCalls
            /\ handles' = [handles EXCEPT !.calls = @ + 1]
            /\ result' =
                 CASE how = "ok" -> Result("capture_image", "success", Absent)
                   [] how = "raises" -> Result("capture_image", "error", "raised")
                   [] how = "no_cv2" ->
                        Result("capture_image", "error",
                               "cv2 not available for saving images")
    /\ UNCHANGED <<bridge, hostVars, gatewayVars>>

\* get_status(): "connected" is reported in the status of the result
get_status ==
    /\ result' = Result("get_status",
                        IF bridge_is_connected THEN "connected: True"
                        ELSE "connected: False", Absent)
    /\ UNCHANGED <<bridge, handles, hostVars, gatewayVars>>

NextBridge ==
    \/ \E how \in {"ok", "no_package", "ctor_raises", "enter_raises"} :
          BridgeConnect(how)
    \/ \E ok \in BOOLEAN : BridgeDisconnect(ok)
    \/ \E roll, pitch, yaw \in {0, 100}, ok \in BOOLEAN :
          move_head(0, roll, pitch, yaw, ok)
    \/ \E ok \in BOOLEAN : move_antennas(ok)
    \/ \E ok \in BOOLEAN : play_emotion(ok)
    \/ \E ok \in BOOLEAN : dance(ok)
    \/ \E ok \in BOOLEAN : say(ok)
    \/ \E how \in {"ok", "raises", "no_cv2"} : capture_image(how)
    \/ get_status

----------------------------------------------------------------------------
(* The voice interface (interface.py) under its entry point (main.py).      *)
(* The task of run() is one process: interface.pc is the await it stands    *)
(* at.  Its gateway is the client above, and its send_message call is the   *)
(* call of caller 1.  What the robot driver, the microphone, transcription  *)
(* and speech synthesis do are the inputs of the steps; a text is the       *)
(* sequence of its words and markup characters.                             *)

\* the wake word given on the command line
WakeWord == "hey"

\* what transcription returns
Texts ==
    { << >>, <<" ">>, <<"hi">>, <<"Hey">>, <<"Hey", " ", "hi">>,
      <<"*", "hi", "*">> }

\* str.lower()
lower(text) ==
    [i \in DOMAIN text |-> IF text[i] = "Hey" THEN "hey" ELSE text[i]]

\* str.strip()
RECURSIVE strip(_)
strip(text) ==
    IF text = << >> THEN text
    ELSE IF Head(text) = " " THEN strip(Tail(text))
    ELSE IF text[Len(text)] = " " THEN strip(SubSeq(text, 1, Len(text) - 1))
    ELSE text

\* str.replace(word, "")
remove(text, word) == SelectSeq(text, LAMBDA w : w # word)

\* WakeWordDetector.detect: self.wake_word in text.lower()
detect(wake_word, text) ==
    \E i \in DOMAIN text : lower(text)[i] = lower(<<wake_word>>)[1]

\* the reply of standalone mode, "I heard you say: " followed by the text
Echo(text) == <<"I heard you say: ">> \o text

\* the markup _speak cuts out of a text ("backquote" stands for the character)
Markup == {"**", "*", "backquote"}

\* _speak: text.replace(m, "") for each markup m
Clean(text) == SelectSeq(text, LAMBDA w : w \notin Markup)

\* the antennas after the first n commands of the claw snap (open, closed,
\* neutral) have been taken, the next one raising
Snap(antennas, n) ==
    CASE n = 0 -> antennas
      [] n = 1 -> "open"
      [] n = 2 -> "closed"
      [] n = 3 -> "neutral"

\* the state of the client that neither a call nor connect() / disconnect() owns
sessionVars ==
    <<gateway_token, ws, connected, authenticated, auth_event, register_event,
      listener_task, raw_message, next_uuid, sent, queue>>

\* main(): create_config(args)
create_config(standalone, wake_word, emotions, idle) ==
    /\ main.pc = "new"
    /\ config' = [standalone_mode |-> standalone, wake_word |-> wake_word,
                  play_emotions |-> emotions, idle_animations |-> idle]
    /\ main' = [main EXCEPT !.pc = "configured"]
    /\ UNCHANGED <<interface, robot, bridgeVars, gatewayVars>>

\* async_main up to asyncio.wait: the task of interface.run() is created
async_main ==
    /\ main.pc = "configured"
    /\ main' = [main EXCEPT !.pc = "waiting", !.run_task = "running"]
    /\ interface' = [interface EXCEPT !.pc = "run"]
    /\ UNCHANGED <<config, robot, bridgeVars, gatewayVars>>

\* SIGINT / SIGTERM
signal_handler ==
    /\ main.pc = "waiting"
    /\ ~main.shutdown
    /\ main' = [main EXCEPT !.shutdown = TRUE]
    /\ UNCHANGED <<config, interface, robot, bridgeVars, gatewayVars>>

\* where run() stands inside start()
StartPositions == {"run", "start_gateway", "connecting", "start_audio"}

\* asyncio.wait returns on the first task that is done, and the pending one
\* is cancelled and awaited.  Inside start() the cancellation leaves run();
\* inside a turn run() catches it after the turn's finally has stopped the
\* claw animation (whose exception, if it failed, is what run() then sees)
\* and send_message's finally has removed its entry; _speak has no finally,
\* so the head-bob task of a playback under way is left running
MainWaitReturns(reset_ok) ==
    /\ main.pc = "waiting"
    /\ main.shutdown \/ main.run_task # "running"
    /\ IF main.run_task # "running"
       THEN /\ main' = [main EXCEPT !.pc = "stopping"]
            /\ UNCHANGED <<interface, robot, response_handlers, future,
                           callVars, cpc>>
       ELSE IF interface.pc \in StartPositions
       THEN /\ main' = [main EXCEPT !.pc = "stopping", !.run_task = "cancelled"]
            /\ interface' = [interface EXCEPT !.pc = "cancelled"]
            /\ cpc' = IF cpc \in {"opening", "wait_auth", "wait_ready"}
                      THEN "raised" ELSE cpc
            /\ UNCHANGED <<robot, response_handlers, future, callVars>>
       ELSE /\ main' = [main EXCEPT !.pc = "stopping", !.run_task = "returned"]
            /\ interface' =
                 [interface EXCEPT
                    !.pc = "returned",
                    !.animation_task = "none",
                    !.speak_task = "none",
                    !.orphaned = @ \/ interface.speak_task # "none",
                    !.state = IF interface.animation_task = "failed"
                              THEN "ERROR" ELSE @]
            /\ robot' = IF interface.animation_task = "running" /\ reset_ok
                        THEN [robot EXCEPT !.antennas = "neutral"] ELSE robot
            /\ response_handlers' =
                 IF pc[1] = "waiting"
                 THEN Pop(response_handlers, message_id[1])
                 ELSE response_handlers
            /\ future' = [future EXCEPT ![1] = NoFuture]
            /\ pc' = [pc EXCEPT ![1] = "idle"]
            /\ message_id' = [message_id EXCEPT ![1] = NoId]
            /\ outcome' = [outcome EXCEPT ![1] = NoOutcome]
            /\ UNCHANGED <<yielded, cpc>>
    /\ UNCHANGED <<config, bridgeVars, sessionVars, overlap>>

\* stop(), from the finally of async_main: _running is cleared, the audio
\* capture stopped, and disconnect() called if there is a gateway
StopBegins ==
    /\ main.pc = "stopping"
    /\ interface' = [interface EXCEPT !.running = FALSE]
    /\ main' = [main EXCEPT !.pc = "disconnecting"]
    /\ UNCHANGED <<config, robot, bridgeVars, gatewayVars>>

\* asyncio.wait hands back the done and the pending tasks: it raises the
\* exception of neither, so nothing inside the try of async_main raises
WaitRaises == FALSE

\* the rest of stop() and the return of async_main: the robot handle is
\* exited, which returns (exit_ok) or raises out of stop() and async_main
StopEnds(exit_ok) ==
    /\ main.pc = "disconnecting"
    /\ interface.gateway = "none" \/ cpc = "disconnected"
    /\ IF interface.reachy = "robot" /\ ~exit_ok
       THEN /\ main' = [main EXCEPT !.pc = "raised"]
            /\ UNCHANGED interface
       ELSE /\ interface' = [interface EXCEPT !.reachy = "none", !.state = "IDLE"]
            /\ main' = [main EXCEPT !.pc = "exited",
                                    !.exit_code = IF WaitRaises THEN 1 ELSE 0]
    /\ UNCHANGED <<config, robot, bridgeVars, gatewayVars>>

\* run() enters start(): _connect_reachy() connects (reachy = "robot") or
\* logs its failure and leaves no robot
StartReachy(reachy) ==
    /\ interface.pc = "run"
    /\ interface' = [interface EXCEPT !.reachy = reachy, !.pc = "start_gateway"]
    /\ UNCHANGED <<config, robot, main, bridgeVars, gatewayVars>>

\* a start() that builds and connects the gateway client in every mode
StartGatewayAlways ==
    /\ interface.pc = "start_gateway"
    /\ interface' = [interface EXCEPT !.gateway = "client", !.pc = "connecting"]
    /\ UNCHANGED <<config, robot, main, bridgeVars, gatewayVars>>

\* start(): the gateway client is built and connect() called, unless in
\* standalone mode
StartGateway ==
    /\ interface.pc = "start_gateway"
    /\ interface' =
         IF config.standalone_mode
         THEN [interface EXCEPT !.pc = "start_audio"]
         ELSE [interface EXCEPT !.gateway = "client", !.pc = "connecting"]
    /\ UNCHANGED <<config, robot, main, bridgeVars, gatewayVars>>

\* connect() has returned to start(), or has raised: the exception leaves
\* start() and run(), whose call of start() is outside its try
StartConnected ==
    /\ interface.pc = "connecting"
    /\ cpc \in {"returned", "raised"}
    /\ IF cpc = "returned"
       THEN /\ interface' = [interface EXCEPT !.pc = "start_audio"]
            /\ UNCHANGED main
       ELSE /\ interface' = [interface EXCEPT !.pc = "raised"]
            /\ main' = [main EXCEPT !.run_task = "raised"]
    /\ UNCHANGED <<config, robot, bridgeVars, gatewayVars>>

\* the rest of start(): audio capture started, _running and IDLE set, the
\* robot woken (wake_ok: wake_up returns, else it raises out of start() and
\* run()), and the startup claw snap, of which n commands are taken before
\* one raises into its except
StartWake(wake_ok, n) ==
    /\ interface.pc = "start_audio"
    /\ IF interface.reachy = "robot" /\ ~wake_ok
       THEN /\ interface' = [interface EXCEPT !.running = TRUE, !.state = "IDLE",
                                              !.pc = "raised"]
            /\ main' = [main EXCEPT !.run_task = "raised"]
            /\ UNCHANGED robot
       ELSE /\ interface' = [interface EXCEPT !.running = TRUE, !.state = "IDLE",
                                              !.pc = "loop"]
            /\ robot' = IF interface.reachy = "robot"
                        THEN [robot EXCEPT !.awake = TRUE,
                                           !.antennas = Snap(@, n)]
                        ELSE robot
            /\ UNCHANGED main
    /\ UNCHANGED <<config, bridgeVars, gatewayVars>>

\* the test of the loop of run() and the head of _conversation_turn
TurnListen ==
    /\ interface.pc = "loop"
    /\ IF interface.running
       THEN /\ interface' = [interface EXCEPT !.state = "LISTENING",
                                              !.pc = "capturing",
                                              !.text = << >>,
                                              !.response = << >>]
            /\ robot' = [robot EXCEPT !.spoken = << >>]
            /\ UNCHANGED main
       ELSE /\ interface' = [interface EXCEPT !.pc = "returned"]
            /\ main' = [main EXCEPT !.run_task = "returned"]
            /\ UNCHANGED robot
    /\ UNCHANGED <<config, bridgeVars, gatewayVars>>

\* capture_utterance() returns audio (heard) or None
TurnCapture(heard) ==
    /\ interface.pc = "capturing"
    /\ interface' =
         IF heard
         THEN [interface EXCEPT !.state = "PROCESSING", !.pc = "transcribing"]
         ELSE [interface EXCEPT !.pc = "loop"]
    /\ UNCHANGED <<config, robot, main, bridgeVars, gatewayVars>>

\* the text of the turn were the wake word left in it
HeardRaw(text) == text

\* the text of the turn once the wake word is dealt with
Heard(text) ==
    IF config.wake_word # Absent /\ ~interface.conversation_active
    THEN strip(remove(lower(text), lower(<<config.wake_word>>)[1]))
    ELSE text

\* transcription returns text (ok) or raises, and the turn goes
\* on to its reply: nothing said and a missing wake word end it; the wake
\* word activates the conversation, plays the claw snap (n commands taken
\* before one raises into its except) and is cut from the text; standalone
\* mode echoes, otherwise the claw animation task is started and the text
\* handed to send_message (interface.text keeps it only where the reply is
\* formed out of it)
TurnTranscribe(ok, text, n) ==
    /\ interface.pc = "transcribing"
    /\ LET waking == config.wake_word # Absent /\ ~interface.conversation_active
           dropped == \/ ~ok
                      \/ strip(text) = << >>
                      \/ waking /\ ~detect(config.wake_word, text)
       IN
       IF dropped
       THEN /\ interface' = [interface EXCEPT !.pc = "loop"]
            /\ UNCHANGED robot
       ELSE /\ robot' = IF waking /\ interface.reachy = "robot"
                        THEN [robot EXCEPT !.antennas = Snap(@, n)]
                        ELSE robot
            /\ interface' =
                 IF Heard(text) = << >>
                 THEN [interface EXCEPT !.conversation_active = TRUE,
                                        !.text = << >>,
                                        !.pc = "loop"]
                 ELSE IF config.standalone_mode
                 THEN [interface EXCEPT
                         !.conversation_active = @ \/ waking,
                         !.text = Heard(text),
                         !.response = Echo(Heard(text)),
                         !.state = "SPEAKING",
                         !.pc = "speaking"]
                 ELSE [interface EXCEPT
                         !.conversation_active = @ \/ waking,
                         !.text = << >>,
                         !.animation_task =
                            IF interface.reachy = "robot" THEN "running"
                            ELSE "none",
                         !.pc = "sending"]
    /\ UNCHANGED <<config, main, bridgeVars, gatewayVars>>

\* _lobster_claw_animation: the next antenna command is taken (ok) or
\* raises, which ends the task with that exception
ClawAnimation(ok) ==
    /\ interface.pc = "sending"
    /\ interface.animation_task = "running"
    /\ IF ok
       THEN /\ robot' = [robot EXCEPT !.antennas = IF @ = "open" THEN "closed"
                                                   ELSE "open"]
            /\ UNCHANGED interface
       ELSE /\ interface' = [interface EXCEPT !.animation_task = "failed"]
            /\ UNCHANGED robot
    /\ UNCHANGED <<config, main, bridgeVars, gatewayVars>>

\* send_message has returned or raised.  A failure is logged, the sad
\* emotion played (sad_ok, else its exception is logged) and the turn
\* ended; the finally cancels and awaits the claw animation, whose own
\* exception, if it had failed, leaves the turn and is caught by run();
\* otherwise the antennas are reset (reset_ok) and a reply goes on to
\* be spoken
TurnGatewayReturns(sad_ok, reset_ok) ==
    /\ interface.pc = "sending"
    /\ pc[1] = "done"
    /\ LET failed == outcome[1].kind # "returned"
           sad == /\ failed /\ config.play_emotions
                  /\ interface.reachy = "robot" /\ sad_ok
           reset == interface.animation_task = "running" /\ reset_ok
       IN
       /\ robot' = [robot EXCEPT !.emotion = IF sad THEN "sad" ELSE @,
                                 !.antennas = IF reset THEN "neutral" ELSE @]
       /\ IF interface.animation_task = "failed"
          THEN /\ interface' = [interface EXCEPT !.animation_task = "none",
                                                 !.state = "ERROR",
                                                 !.pc = "returned"]
               /\ main' = [main EXCEPT !.run_task = "returned"]
          ELSE /\ interface' =
                    IF failed
                    THEN [interface EXCEPT !.animation_task = "none",
                                           !.pc = "loop"]
                    ELSE [interface EXCEPT !.animation_task = "none",
                                           !.response = <<outcome[1].val.s>>,
                                           !.state = "SPEAKING",
                                           !.pc = "speaking"]
               /\ UNCHANGED main
    /\ pc' = [pc EXCEPT ![1] = "idle"]
    /\ message_id' = [message_id EXCEPT ![1] = NoId]
    /\ outcome' = [outcome EXCEPT ![1] = NoOutcome]
    /\ UNCHANGED <<config, bridgeVars, sessionVars, overlap, response_handlers, future,
                   yielded, cpc>>

\* _speak(response): synthesis fails and nothing is spoken ("tts_fails"),
\* the local player speaks the cleaned text ("ok": there is no robot, or
\* the playback through the robot failed before it began), or the playback
\* through the robot begins and the head-bob task is created ("play");
\* every exception is logged inside _speak.  Without playback the turn ends
\* here, with state IDLE
TurnSpeak(how) ==
    /\ interface.pc = "speaking"
    /\ how = "play" => interface.reachy = "robot"
    /\ robot' = IF how = "ok"
                THEN [robot EXCEPT !.spoken = Clean(interface.response)]
                ELSE robot
    /\ interface' =
         IF how = "play"
         THEN [interface EXCEPT !.speak_task = "created", !.pc = "playing"]
         ELSE [interface EXCEPT !.state = "IDLE", !.pc = "loop"]
    /\ UNCHANGED <<config, main, bridgeVars, gatewayVars>>

\* _speak_animation: a head-bob task, that of the playback under way or one
\* left behind, commands the next nod (pitch 3, then -3, in turn)
HeadBob ==
    /\ interface.speak_task # "none" \/ interface.orphaned
    /\ interface.reachy = "robot"
    /\ robot' = [robot EXCEPT !.head = IF @ = "up" THEN "down" ELSE "up"]
    /\ interface' = [interface EXCEPT !.speak_task = IF @ = "created"
                                                     THEN "running" ELSE @]
    /\ UNCHANGED <<config, main, bridgeVars, gatewayVars>>

\* the playback loop of _speak and the end of the turn.  "ok": every chunk
\* is pushed, the head-bob task is cancelled and awaited (its handler, if
\* the task has run, commands pitch 0: head_ok, else that command raises
\* and is passed over) and the antennas are reset.  "raises": a chunk
\* raises, the except branch plays the file locally and the head-bob task
\* is not cancelled
PlaybackEnds(how, head_ok) ==
    /\ interface.pc = "playing"
    /\ robot' =
         IF how = "ok"
         THEN [robot EXCEPT
                 !.spoken = Clean(interface.response),
                 !.antennas = "neutral",
                 !.head = IF interface.speak_task = "running" /\ head_ok
                          THEN "neutral" ELSE @]
         ELSE [robot EXCEPT !.spoken = Clean(interface.response)]
    /\ interface' =
         [interface EXCEPT !.speak_task = "none",
                           !.orphaned = @ \/ how # "ok",
                           !.state = "IDLE",
                           !.pc = "loop"]
    /\ UNCHANGED <<config, main, bridgeVars, gatewayVars>>

\* where the task of run() is suspended inside a turn, so that another task
\* can run
AwaitPositions == {"capturing", "transcribing", "sending", "speaking", "playing"}

\* _idle_animation_loop wakes from its sleep while the task of run() is
\* suspended, finds the state and, in state IDLE with a robot, may command
\* a head movement (move: random() < 0.3)
IdleLook(move) ==
    /\ config.idle_animations
    /\ main.run_task = "running"
    /\ interface.pc \in AwaitPositions
    /\ interface' = [interface EXCEPT !.idle_saw = interface.state]
    /\ robot' = IF interface.state = "IDLE" /\ interface.reachy = "robot" /\ move
                THEN [robot EXCEPT !.head = "idle"]
                ELSE robot
    /\ UNCHANGED <<config, main, bridgeVars, gatewayVars>>

\* the frames the gateway answers the interface with
InterfaceFrames ==
    { Frame("res", <<NoId, i>>, "", ok, Dict(Absent, "pong", Absent),
            IF ok THEN Absent ELSE "boom", Absent)
        : i \in Ids, ok \in BOOLEAN }

NextInterface ==
    \/ \E standalone, emotions \in BOOLEAN, wake_word \in {Absent, WakeWord} :
          create_config(standalone, wake_word, emotions, FALSE)
    \/ async_main
    \/ signal_handler
    \/ \E reset_ok \in BOOLEAN : MainWaitReturns(reset_ok)
    \/ StopBegins
    \/ /\ main.pc = "disconnecting"
       /\ interface.gateway = "client"
       /\ cpc # "disconnected"
       /\ (CallerContinues \/ DisconnectCall \/ DisconnectClose)
    \/ \E exit_ok \in BOOLEAN : StopEnds(exit_ok)
    \/ \E reachy \in {"none", "robot"} : StartReachy(reachy)
    \/ StartGateway
    \/ /\ interface.pc = "connecting"
       /\ (ConnectCall \/ ConnectOpen \/ ConnectFail \/ AuthWait \/ ReadyWait)
    \/ StartConnected
    \/ \E wake_ok \in BOOLEAN, n \in 0..3 : StartWake(wake_ok, n)
    \/ TurnListen
    \/ \E heard \in BOOLEAN : TurnCapture(heard)
    \/ \E ok \in BOOLEAN, text \in Texts, n \in 0..3 :
          TurnTranscribe(ok, text, n)
    \/ \E ok \in BOOLEAN : ClawAnimation(ok)
    \/ /\ interface.pc = "sending"
       /\ (\/ CallNotConnected(1) \/ Call(1) \/ CallSendFails(1)
           \/ Timeout(1) \/ SendMessageEnds(1))
    \/ \E sad_ok, reset_ok \in BOOLEAN : TurnGatewayReturns(sad_ok, reset_ok)
    \/ \E how \in {"ok", "tts_fails"} : TurnSpeak(how)
    \/ TransportCloses
    \/ \E f \in InterfaceFrames : Listen(f)
    \/ ListenClosed

\* the interface with a robot whose driver never fails and with idle
\* animations on: the claw animation, the playback through the robot with
\* its head-bob task, and the idle task
NextAnimate ==
    \/ \E standalone \in BOOLEAN : create_config(standalone, Absent, TRUE, TRUE)
    \/ async_main
    \/ signal_handler
    \/ MainWaitReturns(TRUE)
    \/ StopBegins
    \/ /\ main.pc = "disconnecting"
       /\ interface.gateway = "client"
       /\ cpc # "disconnected"
       /\ (CallerContinues \/ DisconnectCall \/ DisconnectClose)
    \/ StopEnds(TRUE)
    \/ StartReachy("robot")
    \/ StartGateway
    \/ /\ interface.pc = "connecting"
       /\ (ConnectCall \/ ConnectOpen \/ ConnectFail \/ AuthWait \/ ReadyWait)
    \/ StartConnected
    \/ StartWake(TRUE, 3)
    \/ TurnListen
    \/ \E heard \in BOOLEAN : TurnCapture(heard)
    \/ \E ok \in BOOLEAN, text \in {<< >>, <<"hi">>} : TurnTranscribe(ok, text, 3)
    \/ ClawAnimation(TRUE)
    \/ /\ interface.pc = "sending"
       /\ (\/ CallNotConnected(1) \/ Call(1) \/ CallSendFails(1)
           \/ Timeout(1) \/ SendMessageEnds(1))
    \/ TurnGatewayReturns(TRUE, TRUE)
    \/ \E how \in {"ok", "tts_fails", "play"} : TurnSpeak(how)
    \/ HeadBob
    \/ \E how \in {"ok", "raises"} : PlaybackEnds(how, TRUE)
    \/ \E move \in BOOLEAN : IdleLook(move)
    \/ TransportCloses
    \/ \E f \in InterfaceFrames : Listen(f)
    \/ ListenClosed

----------------------------------------------------------------------------
(* The whole client: every task, every frame *)

Next ==
    \/ ConnectCall
    \/ ConnectOpen
    \/ ConnectFail
    \/ AuthWait
    \/ ReadyWait
    \/ CallerContinues
    \/ DisconnectCall
    \/ DisconnectClose
    \/ TransportCloses
    \/ \E f \in Frames : Listen(f)
    \/ ListenClosed
    \/ \E c \in Callers :
        \/ CallNotConnected(c)
        \/ Call(c)
        \/ CallSendFails(c)
        \/ Timeout(c)
        \/ SendMessageEnds(c)
        \/ StreamNext(c)
        \/ StreamTimeout(c)
        \/ Return(c)

Spec == Init /\ [][Next]_vars

----------------------------------------------------------------------------
(* Slices of the client that TLC can exhaust.  Each keeps the actions as   *)
(* they are and bounds the inputs: which frames the gateway sends, which    *)
(* callers call.  In the multiplexer slices the session is opened once,     *)
(* without a token, and the callers call once connect() has returned, as    *)
(* interface.start() and the conversation loop do.                          *)

InitNoToken == Init /\ gateway_token = Absent

\* what a caller of send_message / stream_message may do
Calls(c) ==
    \/ CallNotConnected(c)
    \/ Call(c)
    \/ CallSendFails(c)
    \/ Timeout(c)
    \/ SendMessageEnds(c)
    \/ StreamNext(c)
    \/ StreamTimeout(c)
    \/ Return(c)

\* the request/response multiplexer: a send_message call and a
\* stream_message call, under every kind of response frame
MuxCallers == {1} \cup Streamers

MuxFrames ==
    { Frame("res", <<NoId, i>>, "", TRUE, p, Absent, Absent)
        : i \in FrameIds, p \in {Dict(Absent, "pong", Absent)} }
    \cup { Frame("res", <<NoId, NoId>>, "", TRUE, HelloOk, Absent, Absent),
           Frame("res", <<1, StrayId>>, "", TRUE, Dict(Absent, "pong", Absent),
                 Absent, Absent) }
    \cup { Frame("res", <<NoId, i>>, "", FALSE, Dict(Absent, Absent, Absent),
                 "boom", Absent) : i \in Ids \cup {StrayId} }
    \cup { f \in MessageFrames : f.id # NoId }

NextMux ==
    \/ ConnectCall
    \/ ConnectOpen
    \/ AuthWait
    \/ ReadyWait
    \/ TransportCloses
    \/ \E f \in MuxFrames : Listen(f)
    \/ ListenClosed
    \/ \E c \in MuxCallers : cpc = "returned" /\ Calls(c)

SpecMux == InitNoToken /\ [][NextMux]_vars

\* one send_message call at a time, under the res frames for its own
\* identifier, for a stray one and for none
SoloFrames ==
    { Frame("res", <<NoId, i>>, "", ok, Dict(Absent, "pong", Absent),
            IF ok THEN Absent ELSE "boom", Absent)
        : i \in Ids \cup {StrayId}, ok \in BOOLEAN }
    \cup { Frame("res", <<NoId, NoId>>, "", TRUE, HelloOk, Absent, Absent),
           Frame("res", <<1, StrayId>>, "", TRUE, Dict(Absent, "pong", Absent),
                 Absent, Absent),
           Frame("error", <<NoId, StrayId>>, "", FALSE,
                 Dict(Absent, Absent, Absent), Absent, "body") }

NextSolo ==
    \/ ConnectCall
    \/ ConnectOpen
    \/ AuthWait
    \/ ReadyWait
    \/ TransportCloses
    \/ \E f \in SoloFrames : Listen(f)
    \/ ListenClosed
    \/ \E c \in {1} : cpc = "returned" /\ Calls(c)

SpecSolo == InitNoToken /\ [][NextSolo]_vars

\* the identifiers: a send_message call and a stream_message call, each
\* answered by the frame that ends it
IdsFrames ==
    { Frame("res", <<NoId, i>>, "", TRUE, Dict(Absent, "pong", Absent),
            Absent, Absent) : i \in Ids }
    \cup { Frame("message.end", <<NoId, i>>, "", FALSE,
                 Dict(Absent, Absent, Absent), Absent, "body") : i \in Ids }

NextIds ==
    \/ ConnectCall
    \/ ConnectOpen
    \/ AuthWait
    \/ ReadyWait
    \/ \E f \in IdsFrames : Listen(f)
    \/ \E c \in MuxCallers : cpc = "returned" /\ Calls(c)

SpecIds == InitNoToken /\ [][NextIds]_vars

\* one stream_message call at a time, under chunks of two contents, the two
\* frames that end a stream, and the res frames for its identifier
StreamFrames ==
    { Frame("message.chunk", <<NoId, i>>, "", FALSE,
            Dict(Absent, Absent, Absent), Absent, c)
        : i \in Ids, c \in {"a", "b"} }
    \cup { Frame(t, <<NoId, i>>, "", FALSE, Dict(Absent, Absent, Absent),
                 Absent, "z")
             : i \in Ids, t \in {"message.end", "message.response"} }
    \cup { Frame("res", <<NoId, i>>, "", FALSE, Dict(Absent, Absent, Absent),
                 "boom", Absent) : i \in Ids }

NextStream ==
    \/ ConnectCall
    \/ ConnectOpen
    \/ AuthWait
    \/ ReadyWait
    \/ \E f \in StreamFrames : Listen(f)
    \/ \E c \in Streamers : cpc = "returned" /\ Calls(c)

SpecStream == InitNoToken /\ [][NextStream]_vars

\* correlation: two send_message calls at a time, answered in any order
PairFrames ==
    { Frame("res", <<NoId, i>>, "", TRUE, p, Absent, Absent)
        : i \in Ids,
          p \in {Dict(Absent, "pong", Absent), Dict(Absent, Absent, "body")} }
    \cup { Frame("res", <<NoId, i>>, "", FALSE, Dict(Absent, Absent, Absent),
                 "boom", Absent) : i \in Ids }

NextPair ==
    \/ ConnectCall
    \/ ConnectOpen
    \/ AuthWait
    \/ ReadyWait
    \/ TransportCloses
    \/ \E f \in PairFrames : Listen(f)
    \/ ListenClosed
    \/ \E c \in Senders : cpc = "returned" /\ Calls(c)

SpecPair == InitNoToken /\ [][NextPair]_vars

\* the payload shapes: one send_message call, answered with every payload
PayloadFrames ==
    { Frame("res", <<NoId, i>>, "", TRUE, p, Absent, Absent)
        : i \in Ids, p \in Payloads }
    \cup { Frame("message.response", <<NoId, i>>, "", FALSE,
                 Dict(Absent, Absent, Absent), Absent, "body") : i \in Ids }

NextPayload ==
    \/ ConnectCall
    \/ ConnectOpen
    \/ AuthWait
    \/ ReadyWait
    \/ \E f \in PayloadFrames : Listen(f)
    \/ \E c \in {1} : cpc = "returned" /\ Calls(c)

SpecPayload == InitNoToken /\ [][NextPayload]_vars

\* the session: connect() and disconnect() in any order, with or without a
\* token, under every handshake frame
SessionFrames ==
    EventFrames
        \cup { Frame("res", <<NoId, i>>, "", TRUE, HelloOk, Absent, Absent)
                    : i \in {NoId, StrayId} }
        \cup {Malformed}

NextSession ==
    \/ ConnectCall
    \/ ConnectOpen
    \/ ConnectFail
    \/ AuthWait
    \/ ReadyWait
    \/ CallerContinues
    \/ DisconnectCall
    \/ DisconnectClose
    \/ TransportCloses
    \/ \E f \in SessionFrames : Listen(f)
    \/ ListenClosed

SpecSession == Init /\ [][NextSession]_vars

\* the frame router outside requests and handshake: tool requests, text that
\* is no JSON, JSON that is no object, payloads that are no objects, and an
\* event it does not know
RouterFrames ==
    ToolFrames
        \cup {Malformed, NotObject}
        \cup { f \in BadPayloadFrames : f.id \in {NoId, StrayId} }
        \cup { f \in EventFrames : f.event = "tick" }

NextRouter ==
    \/ ConnectCall
    \/ ConnectOpen
    \/ ConnectFail
    \/ AuthWait
    \/ ReadyWait
    \/ CallerContinues
    \/ DisconnectCall
    \/ DisconnectClose
    \/ TransportCloses
    \/ \E f \in RouterFrames : Listen(f)
    \/ ListenClosed

SpecRouter == Init /\ [][NextRouter]_vars

\* teardown under pending requests: send_message calls made at any time,
\* one after the other, while the owner of the client connects and
\* disconnects and the transport closes
TeardownFrames ==
    { Frame("res", <<NoId, i>>, "", TRUE, Dict(Absent, "pong", Absent),
            Absent, Absent) : i \in Ids }

NextTeardown ==
    \/ ConnectCall
    \/ ConnectOpen
    \/ AuthWait
    \/ ReadyWait
    \/ CallerContinues
    \/ DisconnectCall
    \/ DisconnectClose
    \/ TransportCloses
    \/ \E f \in TeardownFrames : Listen(f)
    \/ ListenClosed
    \/ CallNotConnected(1)
    \/ Call(1)
    \/ CallSendFails(1)
    \/ Timeout(1)
    \/ SendMessageEnds(1)
    \/ Return(1)

SpecTeardown == InitNoToken /\ [][NextTeardown]_vars

\* calls made at any time of the client's life: before connect(), during
\* it, after disconnect() and after the transport has closed; no frame
\* answers them
NextOffline ==
    \/ ConnectCall
    \/ ConnectOpen
    \/ AuthWait
    \/ ReadyWait
    \/ CallerContinues
    \/ DisconnectCall
    \/ DisconnectClose
    \/ TransportCloses
    \/ ListenClosed
    \/ \E c \in MuxCallers : CallNotConnected(c)
    \/ \E c \in MuxCallers : Call(c)
    \/ \E c \in MuxCallers : CallSendFails(c)
    \/ Timeout(1)
    \/ SendMessageEnds(1)
    \/ \E c \in Streamers : StreamTimeout(c)
    \/ \E c \in MuxCallers : Return(c)

SpecOffline == InitNoToken /\ [][NextOffline]_vars

\* two tasks calling connect() on one client, the second while the first
\* is in flight, under the acceptance of the gateway
OverlapFrames == { f \in EventFrames : f.event = "connect.accepted" }

NextOverlap ==
    \/ ConnectCall
    \/ ConnectOpen
    \/ ConnectFail
    \/ AuthWait
    \/ ReadyWait
    \/ CallerContinues
    \/ SecondConnectCall
    \/ SecondConnectOpen
    \/ SecondConnectFail
    \/ SecondAuthWait
    \/ SecondReadyWait
    \/ SecondContinues
    \/ DisconnectCall
    \/ DisconnectClose
    \/ TransportCloses
    \/ \E f \in OverlapFrames : Listen(f)
    \/ ListenClosed

SpecOverlap == InitNoToken /\ [][NextOverlap]_vars

\* the voice interface from main() to its exit, in every mode, with or
\* without a robot, under every failure of the robot driver, speaking
\* through the local player
SpecInterface == InitNoToken /\ [][NextInterface]_vars

\* the voice interface with a working robot, its animations and its idle task
SpecAnimate == InitNoToken /\ [][NextAnimate]_vars

\* the conversation loop of standalone mode with a working robot and idle
\* animations on, no shutdown asked for: the steps of the task of run()
NextTurns ==
    \/ create_config(TRUE, Absent, TRUE, TRUE)
    \/ async_main
    \/ StartReachy("robot")
    \/ StartGateway
    \/ StartWake(TRUE, 3)
    \/ TurnListen
    \/ \E heard \in BOOLEAN : TurnCapture(heard)
    \/ \E ok \in BOOLEAN, text \in Texts : TurnTranscribe(ok, text, 3)
    \/ \E how \in {"ok", "tts_fails", "play"} : TurnSpeak(how)
    \/ \E how \in {"ok", "raises"} : PlaybackEnds(how, TRUE)

\* the idle task finds state IDLE and its draw lets it move the head
IdleMoves == interface.state = "IDLE" /\ IdleLook(TRUE)

NextIdle ==
    \/ NextTurns
    \/ HeadBob
    \/ \E move \in BOOLEAN : IdleLook(move)

\* that loop under the scheduling of the event loop: every await of the
\* task of run() returns in the end, the idle task wakes from its sleep
\* again and again while that task is suspended, and a draw that could be
\* made again and again comes out below 0.3 in the end
SpecIdle ==
    /\ InitNoToken
    /\ [][NextIdle]_vars
    /\ WF_vars(NextTurns)
    /\ SF_vars(\E move \in BOOLEAN : IdleLook(move))
    /\ SF_vars(IdleMoves)

\* the bridge of the action skill, called by the skill's tools; the head is
\* asked for poses within and far beyond the limits
SpecBridge == InitNoToken /\ [][NextBridge]_vars

\* the head of a connected bridge, moved to every pose that is asked
NextHead ==
    \/ BridgeConnect("ok")
    \/ \E z \in Heights, roll, pitch, yaw \in Angles, ok \in BOOLEAN :
          move_head(z, roll, pitch, yaw, ok)

SpecHead == InitNoToken /\ [][NextHead]_vars

\* the session with its timers: websockets.connect returns or raises within
\* its open_timeout, and each wait_for of connect() ends with its event or
\* with its timeout
SpecSessionLive ==
    /\ SpecSession
    /\ WF_vars(ConnectOpen \/ ConnectFail)
    /\ WF_vars(AuthWait)
    /\ WF_vars(ReadyWait)

----------------------------------------------------------------------------
(* The claims *)

\* the frame types that answer a request
ResponseTypes ==
    {"res", "message.response", "message.chunk", "message.end", "error"}

\* every field of the client but the listener's own last frame
clientVars ==
    <<gateway_token, ws, connected, authenticated, auth_event, register_event,
      response_handlers, listener_task, next_uuid, sent, pc, message_id,
      future, queue, yielded, outcome, cpc>>

\* C1: a call of send_message or stream_message that has ended has left no
\* entry under its identifier, however it ended, and once every call has
\* ended the pending table is empty.
C1_EndedCallsLeaveNoEntry ==
    /\ \A c \in Callers :
          pc[c] = "done" => message_id[c] \notin DOMAIN response_handlers
    /\ (\A c \in Callers : pc[c] \in {"idle", "done"})
          => DOMAIN response_handlers = {}

\* C2: a send_message call whose wait times out ends with the timeout error
\* and its entry removed; a response frame that then arrives for its
\* identifier changes nothing and leaves the listener running.
C2_TimeoutRemovesAndLateReplyIsDropped ==
    [][ \A c \in Senders :
          /\ (pc[c] = "waiting" /\ future[c].st = "cancelled" /\ pc'[c] # pc[c])
                => /\ pc'[c] = "done"
                   /\ outcome'[c] = Ended("timeout", None)
                   /\ message_id[c] \notin DOMAIN response_handlers'
          /\ (outcome[c].kind = "timeout" /\ outcome'[c].kind = "timeout")
                => message_id[c] \notin DOMAIN response_handlers'
          /\ (/\ outcome[c].kind = "timeout"
              /\ Listen(raw_message')
              /\ raw_message'.type \in ResponseTypes
              /\ MsgId(raw_message') = message_id[c])
                => UNCHANGED clientVars
      ]_vars

\* C2's case: the call has timed out, and the listener, still running, has
\* last handled a response frame for its identifier
C2_Witness ==
    \E c \in Senders :
        /\ pc[c] = "done"
        /\ outcome[c].kind = "timeout"
        /\ raw_message.type = "res"
        /\ raw_message.ok
        /\ MsgId(raw_message) = message_id[c]
        /\ listener_task = "running"


C4_FrameForSettledRequestIsDiscarded ==
    [][ LET f == raw_message' IN
        (/\ Listen(f)
         /\ f.type \in ResponseTypes
         /\ Known(ListenerState, MsgId(f))
         /\ response_handlers[MsgId(f)].kind = "future"
         /\ FutureDone(ListenerState, response_handlers[MsgId(f)]))
            => UNCHANGED clientVars
      ]_vars

\* C5: a pending future is resolved only by a frame that carries the
\* identifier of its own request, with that frame's payload or error, and
\* the call returns what its own future holds.
C5_EachResponseResolvesItsOwnRequest ==
    [][ \A c \in Senders :
          /\ (future[c].st = "pending" /\ future'[c].st \in {"result", "exception"})
                => LET f == raw_message' IN
                   /\ Listen(f)
                   /\ MsgId(f) = message_id[c]
                   /\ future'[c] = IF f.ok
                                   THEN [st |-> "result", val |-> f.payload]
                                   ELSE [st |-> "exception", val |-> Str(f.error)]
          /\ (pc[c] = "waiting" /\ pc'[c] = "done" /\ future[c].st = "result")
                => /\ outcome'[c].kind = "returned"
                   /\ outcome'[c].val =
                         Str(IF future[c].val.text # Absent
                             THEN future[c].val.text
                             ELSE future[c].val.content)
          /\ (pc[c] = "waiting" /\ pc'[c] = "done" /\ future[c].st = "exception")
                => outcome'[c] = Ended("error", future[c].val)
      ]_vars

\* C5's case: two requests are pending and the one sent last is answered
\* first
C5_Witness ==
    \E c, d \in Senders :
        /\ pc[c] = "waiting" /\ pc[d] = "waiting"
        /\ message_id[c] < message_id[d]
        /\ future[c].st = "pending"
        /\ future[d].st = "result"

\* C6: no two pending calls share an identifier, and the entry under the
\* identifier of a pending call is the handler that call registered.
C6_PendingIdentifiersAreDistinct ==
    /\ \A c, d \in Callers :
          (c # d /\ pc[c] = "waiting" /\ pc[d] = "waiting")
             => message_id[c] # message_id[d]
    /\ \A c \in Callers :
          pc[c] = "waiting"
             => /\ message_id[c] \in DOMAIN response_handlers
                /\ response_handlers[message_id[c]].owner = c

\* C6's case: a send_message call and a stream_message call are pending
\* together
C6_Witness ==
    /\ \E c \in Senders : pc[c] = "waiting"
    /\ \E c \in Streamers : pc[c] = "waiting"
    /\ Cardinality(DOMAIN response_handlers) = 2

\* C7: send_message returns the text field of a resolved dict payload when
\* it has one, else its content field when it has one, else the rendering
\* of the whole payload.
C7_TextThenContentThenRendering ==
    [][ \A c \in Senders :
          (/\ pc[c] = "waiting"
           /\ pc'[c] = "done"
           /\ future[c].st = "result"
           /\ future[c].val.shape = "dict")
             => LET p == future[c].val
                    r == outcome'[c] IN
                /\ r.kind = "returned"
                /\ p.text # Absent => r.val = Str(p.text)
                /\ (p.text = Absent /\ p.content # Absent) => r.val = Str(p.content)
                /\ (p.text = Absent /\ p.content = Absent)
                      => r.val = PyVal("repr", "dict", p.type, p.text, p.content)
      ]_vars

\* C7's case: the call has returned the (empty) text of a payload that
\* holds a content field too
C7_Witness ==
    \E c \in Senders :
        /\ pc[c] = "done"
        /\ outcome[c] = Ended("returned", Str(""))
        /\ raw_message.type = "res"
        /\ MsgId(raw_message) = message_id[c]
        /\ raw_message.payload.text = ""
        /\ raw_message.payload.content = "body"

C9_AcceptanceReleasesBothWaits ==
    [][ LET f == raw_message' IN
        (/\ Listen(f)
         /\ \/ f.type = "event" /\ f.event = "connect.accepted"
            \/ f.type = "res" /\ f.ok /\ f.payload.type = "hello-ok")
            => /\ authenticated'
               /\ auth_event' = "set"
               /\ register_event' = "set"
      ]_vars

\* C10: connect() does not return normally, with is_connected true, from a
\* session that a connect.rejected event has left not authenticated while
\* connect() was waiting.
C10_RejectedConnectDoesNotReturnConnected ==
    [][ (/\ cpc = "wait_ready"
         /\ cpc' = "returned"
         /\ auth_event = "set"
         /\ ~authenticated)
            => ~is_connected'
      ]_vars

\* C11: a connect() that has begun to open the transport always ends, by
\* returning or by raising, whatever frames arrive; it leaves the
\* authentication wait only for the ready wait, and it returns only from the
\* ready wait.
C11_ConnectAlwaysEnds ==
    /\ (cpc \in {"opening", "wait_auth", "wait_ready"})
            ~> (cpc \in {"returned", "raised"})
    /\ [][ /\ (cpc = "wait_auth" /\ cpc' # cpc) => cpc' = "wait_ready"
           /\ (cpc \in {"opening", "wait_auth", "wait_ready"} /\ cpc' = "returned")
                 => cpc = "wait_ready"
         ]_vars

\* C11's case: connect() has returned from a handshake in which the last
\* frame was a rejection
C11_Witness ==
    /\ cpc = "returned"
    /\ raw_message.type = "event"
    /\ raw_message.event = "connect.rejected"
    /\ auth_event = "set"
    /\ register_event = "clear"

\* C12: connect() does not return normally from its ready wait once the
\* transport has closed under it.
C12_ClosedTransportFailsConnect ==
    [][ (cpc = "wait_ready" /\ ws = "closed") => cpc' # "returned" ]_vars

\* C13: when the authentication wait ends with its event not set, the
\* session is marked authenticated and connect() goes on to the ready wait;
\* the transport, the connected flag and the listener are left as they are.
C13_AuthTimeoutIsPermissive ==
    [][ (cpc = "wait_auth" /\ auth_event # "set" /\ cpc' # cpc)
            => /\ authenticated'
               /\ cpc' = "wait_ready"
               /\ UNCHANGED <<ws, connected, listener_task>>
      ]_vars

\* C13's case: no challenge was ever answered, and connect() is in its ready
\* wait with the session authenticated
C13_Witness ==
    /\ cpc = "wait_ready"
    /\ auth_event = "clear"
    /\ authenticated
    /\ sent = << >>
    /\ ws = "open"

\* C14: when the ready wait ends with its event not set, connect() returns
\* normally; the transport, the connected flag and the listener are left as
\* they are.
C14_ReadyTimeoutLeavesOpen ==
    [][ (cpc = "wait_ready" /\ register_event # "set" /\ cpc' # cpc)
            => /\ cpc' = "returned"
               /\ UNCHANGED <<ws, connected, listener_task>>
      ]_vars

\* C14's case: connect() has returned without an acknowledgment, on an open
\* transport with the listener running
C14_Witness ==
    /\ cpc = "returned"
    /\ register_event = "clear"
    /\ ws = "open"
    /\ is_connected
    /\ listener_task = "running"

\* C15: when disconnect() has ended, the listener is not running, the
\* transport is cleared and is_connected is false; a disconnect() on a
\* client in that state changes no field of it.
C15_DisconnectIsIdempotent ==
    /\ [](cpc = "disconnected"
            => listener_task # "running" /\ ws = "none" /\ ~is_connected)
    /\ [][ (/\ ws = "none"
            /\ listener_task # "running"
            /\ \/ cpc = "idle" /\ cpc' = "closing"
               \/ cpc = "closing" /\ cpc' = "disconnected")
              => UNCHANGED <<hostVars, bridgeVars, overlap, gateway_token, ws, connected, authenticated,
                             auth_event, register_event, response_handlers,
                             listener_task, next_uuid, sent, pc, message_id,
                             future, queue, yielded, outcome>>
         ]_vars

\* C15's case: disconnect() has ended on a client whose listener it had
\* cancelled
C15_Witness ==
    /\ cpc = "disconnected"
    /\ listener_task = "cancelled"
    /\ ws = "none"
    /\ ~connected

\* C16: on a client that is connected, connect() opens no transport, does
\* not recreate the two events and starts no listener: the step that opens
\* a transport is taken only by a client that is not connected, and while
\* the client is connected an event that is set stays set.
C16_ReadySessionIsNotReopened ==
    [][ /\ (cpc = "opening" /\ cpc' = "wait_auth") => ~is_connected
        /\ (is_connected /\ is_connected')
              => /\ auth_event = "set" => auth_event' = "set"
                 /\ register_event = "set" => register_event' = "set"
                 /\ listener_task # "running" => listener_task' # "running"
      ]_vars

\* C16's case: connect() has returned on a ready session
C16_Witness ==
    /\ cpc = "returned"
    /\ is_connected
    /\ auth_event = "set"
    /\ register_event = "set"
    /\ listener_task = "running"

\* C17: the listener adds items at the tail of a stream's queue;
\* stream_message takes them from the head, yields each chunk it takes in
\* that order and yields nothing else; it ends when it takes the end marker,
\* removing its entry; once it has ended it yields nothing more, and a frame
\* for its identifier changes nothing.
C17_StreamYieldsInOrderAndEndsOnce ==
    [][ \A c \in Streamers :
          LET q == queue[c]
              y == yielded[c] IN
          /\ (pc[c] = "waiting" /\ Len(queue'[c]) > Len(q))
                => /\ SubSeq(queue'[c], 1, Len(q)) = q
                   /\ yielded'[c] = y
          /\ (pc[c] = "waiting" /\ pc'[c] = "waiting" /\ queue'[c] # q
                /\ Len(queue'[c]) <= Len(q))
                => /\ Head(q) # None
                   /\ yielded'[c] = Append(y, Head(q))
                   /\ queue'[c] = Tail(q)
          /\ (pc[c] = "waiting" /\ yielded'[c] # y)
                => q # << >> /\ yielded'[c] = Append(y, Head(q))
          /\ (pc[c] = "waiting" /\ pc'[c] = "done" /\ outcome'[c].kind = "returned")
                => /\ q # << >>
                   /\ Head(q) = None
                   /\ yielded'[c] = y
                   /\ message_id[c] \notin DOMAIN response_handlers'
          /\ (pc[c] = "done" /\ pc'[c] = "done")
                => /\ yielded'[c] = y
                   /\ outcome'[c] = outcome[c]
                   /\ message_id[c] \notin DOMAIN response_handlers'
          /\ (pc[c] = "done" /\ Listen(raw_message')
                /\ MsgId(raw_message') = message_id[c])
                => UNCHANGED clientVars
      ]_vars

\* C17's case: the stream has yielded "a" then "b" and has ended, and after
\* that the listener has handled one more chunk for the same identifier
C17_Witness ==
    \E c \in Streamers :
        /\ pc[c] = "done"
        /\ outcome[c].kind = "returned"
        /\ yielded[c] = <<Str("a"), Str("b")>>
        /\ raw_message.type = "message.chunk"
        /\ MsgId(raw_message) = message_id[c]
        /\ listener_task = "running"

\* C18: a res frame with ok false for a pending identifier rejects the
\* future of a send_message call with the carried error, and puts the end
\* marker on the queue of a stream_message call.
C18_FailureEndsTheRequest ==
    [][ LET f == raw_message'
            id == MsgId(f) IN
        (/\ Listen(f)
         /\ f.type = "res"
         /\ ~f.ok
         /\ Known(ListenerState, id))
            => \A c \in Callers :
                 (pc[c] = "waiting" /\ message_id[c] = id)
                    => IF c \in Senders
                       THEN future[c].st = "pending"
                               => future'[c] = [st |-> "exception",
                                                val |-> Str(f.error)]
                       ELSE queue'[c] = Append(queue[c], None)
      ]_vars

\* C19 as stated: handling a tool.request frame always sends exactly one
\* frame, a tool.response with the id of the request and the fixed error
\* as its result.
C19_ToolRequestAlwaysAnswered ==
    [][ (Listen(raw_message') /\ raw_message'.type = "tool.request")
            => /\ Len(sent') = Len(sent) + 1
               /\ sent'[Len(sent')] =
                     Out("tool.response", "Tool handler not registered",
                         raw_message'.id, "")
      ]_vars

\* C19 amended: handling a tool.request frame while the transport is open
\* sends exactly one frame, a tool.response with the id of the request and
\* the fixed error as its result, and the listener goes on; when the
\* transport has closed, nothing is sent and the listener ends.
C19_ToolRequestAnsweredWhileOpen ==
    [][ (Listen(raw_message') /\ raw_message'.type = "tool.request")
            => IF ws = "open"
               THEN /\ Len(sent') = Len(sent) + 1
                    /\ sent'[Len(sent')] =
                          Out("tool.response", "Tool handler not registered",
                              raw_message'.id, "")
                    /\ listener_task' = "running"
                    /\ connected' = connected
               ELSE /\ sent' = sent
                    /\ listener_task' = "failed"
      ]_vars

\* C19's case: the one frame the client has sent answers the tool request
\* the listener has just handled, under the same id
C19_Witness ==
    /\ raw_message.type = "tool.request"
    /\ raw_message.id = StrayId
    /\ listener_task = "running"
    /\ Len(sent) = 1
    /\ sent[1].type = "tool.response"
    /\ sent[1].id = StrayId

\* C20: after the listener has handled text that is no JSON, JSON that is no
\* object, or a res frame whose payload is no object, it is still running
\* and the connected flag is what it was.
C20_BadFrameIsDiscarded ==
    [][ (/\ Listen(raw_message')
         /\ raw_message' \in {Malformed, NotObject} \cup BadPayloadFrames)
            => /\ listener_task' = "running"
               /\ connected' = connected
      ]_vars


\* C21: a timeout or a remote error of one pending send_message call touches
\* that call only.  In the step in which the wait of a call times out, its
\* failure response is delivered, or the call ends on either, every other
\* call, every other entry of the pending table, is_connected and the
\* listener are as they were; and a success response that arrives after one
\* call has failed still resolves the request it names.
C21_FailureTouchesItsOwnCallOnly ==
    [][ \A c \in Senders :
          /\ (\/ /\ future[c].st = "pending"
                 /\ future'[c].st \in {"cancelled", "exception"}
              \/ /\ pc[c] = "waiting" /\ pc'[c] = "done"
                 /\ future[c].st \in {"cancelled", "exception"})
                => /\ \A d \in Callers \ {c} :
                        /\ pc'[d] = pc[d]
                        /\ future'[d] = future[d]
                        /\ queue'[d] = queue[d]
                        /\ outcome'[d] = outcome[d]
                   /\ \A k \in DOMAIN response_handlers \ {message_id[c]} :
                        /\ k \in DOMAIN response_handlers'
                        /\ response_handlers'[k] = response_handlers[k]
                   /\ is_connected' = is_connected
                   /\ listener_task' = listener_task
          /\ \A d \in Senders \ {c} :
                LET f == raw_message' IN
                (/\ outcome[c].kind \in {"timeout", "error"}
                 /\ future[d].st = "pending"
                 /\ Listen(f)
                 /\ f.type = "res" /\ f.ok
                 /\ MsgId(f) = message_id[d])
                    => /\ future'[d] = [st |-> "result", val |-> f.payload]
                       /\ listener_task' = "running"
      ]_vars

\* C21's case: one call has ended on a remote error, and a request sent
\* after its own has then been resolved on the same session
C21_Witness ==
    \E c, d \in Senders :
        /\ pc[c] = "done"
        /\ outcome[c].kind = "error"
        /\ pc[d] = "waiting"
        /\ message_id[c] < message_id[d]
        /\ future[d].st = "result"
        /\ raw_message.ok
        /\ MsgId(raw_message) = message_id[d]
        /\ is_connected
        /\ listener_task = "running"


\* C22: tearing the session down leaves the pending table alone.  A step in
\* which the transport closes, the listener stops on the closed transport
\* (marking the session not connected), or disconnect() cancels the listener
\* or closes the transport, resolves, rejects and removes no pending request
\* and ends no call; and a send_message call whose future was never set by a frame for its
\* own identifier ends only on its own timeout.
C22_TeardownLeavesPendingRequests ==
    [][ /\ (\/ ws' # ws /\ ws' \in {"closed", "none"}
            \/ listener_task = "running" /\ listener_task' \in {"closed", "cancelled"}
            \/ cpc' # cpc /\ cpc' \in {"closing", "disconnected"})
              => /\ response_handlers' = response_handlers
                 /\ future' = future
                 /\ queue' = queue
                 /\ UNCHANGED callVars
        /\ (listener_task = "running" /\ listener_task' = "closed")
              => ~connected' /\ ws = "closed"
        /\ (cpc = "idle" /\ cpc' = "closing")
              => listener_task' # "running"
        /\ \A c \in Senders :
              /\ (future[c].st = "pending" /\ future'[c] # future[c])
                    => \/ future'[c].st = "cancelled"
                       \/ /\ Listen(raw_message')
                          /\ MsgId(raw_message') = message_id[c]
              /\ (/\ pc[c] = "waiting" /\ pc'[c] = "done"
                  /\ future[c].st \notin {"result", "exception"})
                    => outcome'[c] = Ended("timeout", None)
      ]_vars

\* C22's case: disconnect() has returned while a request was pending: the
\* listener is cancelled, the transport is gone, and the request is still
\* registered with its waiter unresolved
C22_Witness ==
    \E c \in Senders :
        /\ cpc = "disconnected"
        /\ listener_task = "cancelled"
        /\ ws = "none"
        /\ pc[c] = "waiting"
        /\ future[c].st = "pending"
        /\ message_id[c] \in DOMAIN response_handlers


\* C23: send_message(text) on a connected client writes exactly one frame,
\* of type req with method chat.send, under the identifier its entry was
\* registered with; the params carry message = text, a sessionKey that
\* begins with "reachy-mini:" and an idempotencyKey equal to the frame's id.
C23_SendMessageUsesChatSend ==
    [][ \A c \in Senders :
          (pc[c] = "idle" /\ pc'[c] = "waiting")
              => /\ Len(sent') = Len(sent) + 1
                 /\ message_id'[c] \in DOMAIN response_handlers'
                 /\ LET r == sent'[Len(sent')]
                        p == RequestParams("ping") IN
                    /\ r.type = "req"
                    /\ r.id = message_id'[c]
                    /\ r.method = "chat.send"
                    /\ {"message", "sessionKey", "idempotencyKey"} \subseteq DOMAIN p
      ]_vars


\* the robot operations of the bridge
RobotOps ==
    {"move_head", "move_antennas", "play_emotion", "dance", "capture_image", "say"}

\* the angle a safety limit lets through
Within(limit, a) == IF a > limit THEN limit ELSE IF a < -limit THEN -limit ELSE a

C25_GatewayFailureReturnsToIdle ==
    [][ ( /\ interface.pc = "sending"
          /\ pc[1] = "done"
          /\ outcome[1].kind # "returned"
          /\ pc'[1] = "idle"
          /\ main'.pc = main.pc )
          => /\ interface'.state = "IDLE"
             /\ interface'.pc = "loop"
             /\ robot'.spoken = << >>
             /\ main'.run_task = "running"
      ]_vars

\* C26: async_main returns 1 when the task of run() has ended with the
\* exception of a start() that failed.
C26_FailedStartupExitsWithOne ==
    (main.pc = "exited" /\ main.run_task = "raised") => main.exit_code = 1

\* C27: no failure of a robot driver call makes start() or a turn raise:
\* start() raises only with the exception of connect(), and run() never
\* catches an exception of a turn, which is what sets the state ERROR.
C27_RobotFailuresNeverPropagate ==
    /\ interface.pc = "raised" => cpc = "raised"
    /\ interface.state # "ERROR"

\* C28: while the bridge is not connected, every robot operation returns the
\* error status with the message 'Not connected to robot', calls no robot
\* handle and leaves the bridge as it was, and get_status reports connected
\* false.
C28_NotConnectedOperationsOnlyReport ==
    [][ ~(bridge.connected /\ bridge.mini # "none")
          => /\ result'.op \in RobotOps
                  => /\ result'.status = "error"
                     /\ result'.message = "Not connected to robot"
                     /\ handles' = handles
                     /\ bridge' = bridge
             /\ result'.op = "get_status"
                  => /\ result'.status = "connected: False"
                     /\ handles' = handles
                     /\ bridge' = bridge
      ]_vars

\* C28's case: a handle is held from a connect() whose entry raised, the
\* bridge is not connected, and move_head has returned the error
C28_Witness ==
    /\ bridge.mini = "handle"
    /\ ~bridge.connected
    /\ result = NotConnected("move_head")
    /\ handles.calls = 0

\* C29: a connect() that returns connected has created and entered exactly
\* one handle; connect() on a connected bridge returns already_connected
\* and creates and enters none; a disconnect() that returns disconnected has
\* exited the handle exactly once and leaves is_connected false;
\* disconnect() on an unconnected bridge returns not_connected and exits
\* nothing.
C29_HandleEnteredAndExitedOnce ==
    [][ LET was == bridge.connected /\ bridge.mini # "none" IN
        /\ result'.op = "connect"
              => /\ was <=> result'.status = "already_connected"
                 /\ was => handles' = handles /\ bridge' = bridge
                 /\ result'.status = "connected"
                      => /\ handles'.created = handles.created + 1
                         /\ handles'.entered = handles.entered + 1
                         /\ handles'.exited = handles.exited
                         /\ bridge_is_connected'
        /\ result'.op = "disconnect"
              => /\ ~was <=> result'.status = "not_connected"
                 /\ ~was => handles' = handles /\ bridge' = bridge
                 /\ result'.status = "disconnected"
                      => /\ handles'.exited = handles.exited + 1
                         /\ handles'.entered = handles.entered
                         /\ handles'.created = handles.created
                         /\ ~bridge_is_connected'
        /\ result'.op \notin {"connect", "disconnect"}
              => /\ handles'.created = handles.created
                 /\ handles'.entered = handles.entered
                 /\ handles'.exited = handles.exited
      ]_vars

\* C29's case: the bridge was connected, disconnected and connected again,
\* and a further connect() has returned already_connected
C29_Witness ==
    /\ result.op = "connect"
    /\ result.status = "already_connected"
    /\ handles.created = 2
    /\ handles.entered = 2
    /\ handles.exited = 1
    /\ bridge_is_connected

\* C30: move_head on a connected bridge commands and reports, for roll,
\* pitch and yaw, the angle asked if it is within the limit of its axis and
\* the limit of its sign if it is beyond; nothing outside a limit reaches
\* the robot or the result, and the height is passed as asked.
C30_HeadAnglesAreClamped ==
    [][ (result'.op = "move_head" /\ bridge_is_connected)
          => LET a == handles'.asked
                 p == handles'.head
                 limit == <<0, max_roll, max_pitch, max_yaw>> IN
             /\ p[1] = a[1]
             /\ \A i \in 2..4 :
                   /\ p[i] = Within(limit[i], a[i])
                   /\ -limit[i] <= p[i] /\ p[i] <= limit[i]
             /\ result'.status = "success" => result'.position = p
      ]_vars

\* C30's case: a roll beyond its limit upwards, a pitch at its limit and
\* a yaw beyond its limit downwards have been asked together
C30_Witness ==
    /\ result.op = "move_head"
    /\ result.status = "success"
    /\ handles.asked = <<10, 100, -30, -100>>
    /\ handles.head = <<10, max_roll, -30, -max_yaw>>
    /\ result.position = handles.head

\* the event names _handle_event acts on
HandshakeEvents == {"connect.challenge", "connect.accepted", "connect.rejected"}

\* C31: at the end of every conversation turn, and when run() has ended,
\* no actuator an animation drove is left mid-gesture: the last antenna
\* command is the neutral one and the last head command of the head-bob is
\* pitch 0.
C31_AnimationsEndNeutral ==
    interface.pc \in {"loop", "returned"} =>
        /\ robot.antennas \notin {"open", "closed"}
        /\ robot.head \notin {"up", "down"}

\* C32: handling an event frame whose name is none of the handshake names
\* raises nothing and changes nothing: nothing is sent, the authenticated
\* flag, the two wait events and the pending table stay as they are, and
\* the listener keeps running.
C32_UnknownEventChangesNothing ==
    [][ LET f == raw_message' IN
        (/\ Listen(f)
         /\ f.type = "event"
         /\ f.event \notin HandshakeEvents)
            => /\ UNCHANGED clientVars
               /\ listener_task' = "running"
               /\ ~listen(ListenerState, f).raised
      ]_vars

\* C32's case: connect() is waiting for the handshake, unauthenticated and
\* with its auth event clear, and the listener has last handled a tick
C32_Witness ==
    /\ raw_message.type = "event"
    /\ raw_message.event = "tick"
    /\ listener_task = "running"
    /\ cpc = "wait_auth"
    /\ auth_event = "clear"
    /\ ~authenticated

\* C33: send_message and stream_message called on a client that is not
\* connected (its flag is down, or it has no transport) end at once with the
\* RuntimeError "Not connected": no identifier is drawn, no entry registered,
\* no future or queue made and no frame sent.
C33_CallsFailWhenNotConnected ==
    [][ \A c \in Callers :
          (/\ pc[c] = "idle"
           /\ pc'[c] # "idle"
           /\ ~connected \/ ws = "none")
             => /\ pc'[c] = "done"
                /\ outcome'[c] = Ended("not_connected", None)
                /\ message_id'[c] = NoId
                /\ UNCHANGED <<response_handlers, sent, next_uuid, future,
                               queue, ws, connected, listener_task>>
      ]_vars

\* C33's case: the listener has seen the transport close under a client
\* whose connect() had returned, and a send_message call and a
\* stream_message call made after that have both failed
C33_Witness ==
    /\ cpc = "returned"
    /\ ws = "closed"
    /\ listener_task = "closed"
    /\ \A c \in MuxCallers : outcome[c] = Ended("not_connected", None)
    /\ sent # << >>

\* C34: the authenticated flag is that of the current connection only: it
\* is down when disconnect() has returned and when a new connection has
\* just been opened by connect(), until that connection's own handshake.
C34_AuthenticatedIsPerConnection ==
    [][ /\ (cpc = "closing" /\ cpc' = "disconnected") => ~authenticated'
        /\ (cpc = "opening" /\ cpc' = "wait_auth") => ~authenticated'
      ]_vars

\* C35: a client has at most one open transport and one running listener
\* task at any time: connect() never drops a transport that is still open
\* or a listener that is still running, also when a second connect() is
\* made while the first is in flight.
C35_OneTransportOneListener ==
    /\ ~overlap.transport
    /\ ~overlap.listener

\* C36: no animation task outlives the turn that started it: outside the
\* wait for the gateway there is no claw animation task, outside the
\* playback no head-bob task, and none is ever left behind.
C36_AnimationTasksEndWithTheirTurn ==
    /\ interface.pc # "sending" => interface.animation_task = "none"
    /\ interface.pc # "playing" => interface.speak_task = "none"
    /\ ~interface.orphaned

C38_IdleTaskFindsIdle ==
    <>(interface.idle_saw = "IDLE" /\ <>(robot.head = "idle"))

\* C38's case: a turn has ended with its reply spoken and state IDLE; the
\* idle task ran last while that reply was being spoken.
C38_Witness ==
    /\ config.idle_animations
    /\ interface.reachy = "robot"
    /\ interface.pc = "loop"
    /\ interface.state = "IDLE"
    /\ robot.spoken # << >>
    /\ interface.idle_saw = "SPEAKING"

\* whatever the mode and the scheduling, the idle task never finds state
\* IDLE and never moves the head: the state is IDLE only between the last
\* statement of a turn and the first of the next, where the task of run()
\* is not suspended
IdleTaskNeverFindsIdle ==
    /\ interface.idle_saw # "IDLE"
    /\ robot.head # "idle"
    /\ interface.pc \in AwaitPositions => interface.state # "IDLE"

\* C39: a connect() of the bridge that fails returns an error and leaves the
\* bridge as it was: not connected and holding no robot handle.
C39_FailedConnectRetainsNothing ==
    [][ (result'.op = "connect" /\ result'.status = "error")
          => /\ bridge' = bridge
             /\ ~bridge'.connected
             /\ bridge'.mini = "none"
      ]_vars

\* C40: a disconnect() whose handle exit raises returns an error and leaves
\* the bridge connected and holding its handle; every disconnect() of a
\* connected bridge, the one after a raising exit included, calls the exit.
C40_FailedDisconnectKeepsHandle ==
    [][ (result'.op = "disconnect" /\ bridge_is_connected)
          => /\ handles'.exited = handles.exited + 1
             /\ result'.status \in {"disconnected", "error"}
             /\ result'.status = "error" =>
                   /\ bridge' = bridge
                   /\ bridge'.connected /\ bridge'.mini = "handle"
                   /\ result'.message = "raised"
             /\ result'.status = "disconnected" =>
                   bridge' = [mini |-> "none", connected |-> FALSE]
      ]_vars

\* C40's case: the exit of the one handle entered has raised twice, in two
\* calls of disconnect(), and the bridge is still connected
C40_Witness ==
    /\ result.op = "disconnect"
    /\ result.status = "error"
    /\ handles.entered = 1
    /\ handles.exited = 2
    /\ bridge_is_connected

====
